---- MODULE Spec2Model ----
(***************************************************************************)
(* A model of the data plane of redis.c: the event-driven client I/O, the  *)
(* protocol parser, the command dispatcher, the reference-counted value    *)
(* objects, the command handlers, the snapshot file with SAVE and the      *)
(* background save, and the cron.                                          *)
(*                                                                         *)
(* A byte string (sds) is a sequence of one-character strings.  The whole  *)
(* server state is threaded through the operators as one record, the       *)
(* "world" w; each event handler of the program is one action that applies *)
(* the handler's operator to the current world.                            *)
(***************************************************************************)
EXTENDS Integers, Sequences, FiniteSets, TLC

VARIABLES
    heap,         \* robj headers: heap[o] = [type, ptr, refcount]
    objfreelist,  \* server.objfreelist: recycled robj headers, head first
    dict,         \* server.dict: dict[j] is database j-1, a set of [key, val]
    dirty,        \* server.dirty
    clients,      \* server.clients: the fds of the live clients, in list order
    client,       \* the redisClient structures, by fd
    el,           \* the event loop: the installed <<fd, mask>> file events
    crashed,      \* the process aborted (assert, oom, a wild pointer)
    abi,          \* the build: "LP64" (long has 64 bits) or "ILP32"
    net,          \* per connection: the peer's side and the bytes in flight
    disk,         \* the working directory: disk.dir gives the inode of each
                  \* file name, disk.ino the bytes of each inode
    sent,         \* history: the bytes written to each client's socket
    log,          \* history: one entry per call of processCommand
    boot,         \* history: the keyspace the file was written from,
                  \* whether the process was started from the file, the
                  \* keyspace of the save that last counted as done, what
                  \* the last SAVE found and left, and the keyspaces of the
                  \* last two snapshots installed with the time they were
                  \* captured
    bgsaveinprogress, \* server.bgsaveinprogress
    lastsave,     \* server.lastsave
    cronloops,    \* server.cronloops, modulo 10
    nrandom,      \* the number of calls of random() the process has made
    now,          \* what time(NULL) returns
    children,     \* the child processes not yet reaped, oldest first
    idle,         \* history, per connection: when the last byte moved, and
                  \* the cron ticks that ran since it is over the idle limit
    cronlog       \* history: what the last call of serverCron found and did

vars == <<heap, objfreelist, dict, dirty, clients, client, el, crashed, abi,
          net, disk, sent, log, boot, bgsaveinprogress, lastsave, cronloops,
          nrandom, now, children, idle, cronlog>>

(***************************** bounds **************************************)

\* The most bytes one read event of the fine-grained specifications returns
\* short of "everything that is there".
MaxFrag == 3
\* The number of request chunks a peer writes on one connection.
MaxSend == 2
MaxSendKV == 3

(************************ program constants ********************************)

REDIS_QUERYBUF_LEN == 1024
REDIS_MAX_ARGS == 16
\* server.dbnum, as the "databases" directive of the configuration sets it
dbnum == 2
\* 1024*1024*1024, written as a power of two
BULK_MAX == 2^30

(***************************** bytes ***************************************)

\* The bytes of a string literal.
B(s) == [i \in 1..Len(s) |-> SubSeq(s, i, i)]

CRLF == B("\r\n")
NULLPTR == <<"NULL">>
FREED == <<"FREED">>

\* Before the first call of serverCron.
NoCron == [ran |-> FALSE, closed |-> {}]

\* Before the first call of saveDb.
NoSave == [who |-> "none"]

\* The element of a set of one element.  {e(x) : x \in {v}} is e(v) with v
\* evaluated once, as a C function evaluates an argument once.
The(S) == CHOOSE x \in S : TRUE

Min(a, b) == IF a < b THEN a ELSE b
Max(a, b) == IF a > b THEN a ELSE b

UpperCase == B("ABCDEFGHIJKLMNOPQRSTUVWXYZ")
LowerCase == B("abcdefghijklmnopqrstuvwxyz")
Digits == B("0123456789")

IndexIn(ch, s) ==
    IF \E i \in 1..Len(s) : s[i] = ch
    THEN CHOOSE i \in 1..Len(s) : s[i] = ch /\ \A j \in 1..(i-1) : s[j] /= ch
    ELSE 0

tolower(ch) ==
    IF IndexIn(ch, UpperCase) > 0 THEN LowerCase[IndexIn(ch, UpperCase)] ELSE ch

sdstolower(s) == [i \in 1..Len(s) |-> tolower(s[i])]

isdigit(ch) == IndexIn(ch, Digits) > 0
isspace(ch) == ch \in {" ", "\t", "\n", "\r", "\f"}

\* sdsrange(s, start, -1): the bytes from offset start (0-based) to the end.
sdsrange(s, start) == SubSeq(s, start + 1, Len(s))

\* strchr(s, '\n') as a 1-based position, 0 when there is none.
strchrLF(s) == IndexIn("\n", s)

\* sdssplitlen(s, len, " ", 1, &argc): the pieces between single spaces, the
\* empty ones included; there is always a last piece.
RECURSIVE sdssplitlen(_)
sdssplitlen(s) ==
    LET p == IndexIn(" ", s) IN
    IF p = 0 THEN <<s>>
    ELSE <<SubSeq(s, 1, p - 1)>> \o sdssplitlen(SubSeq(s, p + 1, Len(s)))

\* sprintf("%d") of an int.
RECURSIVE utoa(_)
utoa(n) == IF n < 10 THEN <<Digits[n + 1]>>
           ELSE utoa(n \div 10) \o <<Digits[(n % 10) + 1]>>

itoa(n) == IF n < 0 THEN <<"-">> \o utoa(0 - n) ELSE utoa(n)

(***************************************************************************)
(* atoi.  The C library computes atoi(s) as (int) strtol(s, NULL, 10).     *)
(* The magnitude is accumulated in four 16-bit limbs, least significant    *)
(* first, because the values exceed the integers of the model checker.     *)
(* strtol saturates at the range of long; the cast keeps the low 32 bits.  *)
(* A value outside int is undefined behaviour by the C standard: the       *)
(* result depends on the build, LP64 (long is 64 bits) or ILP32.           *)
(***************************************************************************)
Limb == 65536

\* m * 10 + d on limbs; a fifth element is the carry out of 64 bits.
MulAdd(m, d) ==
    LET a0 == m[1] * 10 + d
        a1 == m[2] * 10 + (a0 \div Limb)
        a2 == m[3] * 10 + (a1 \div Limb)
        a3 == m[4] * 10 + (a2 \div Limb)
    IN  <<a0 % Limb, a1 % Limb, a2 % Limb, a3 % Limb,
          IF m[5] > 0 \/ a3 >= Limb THEN 1 ELSE 0>>

RECURSIVE Magnitude(_, _)
Magnitude(s, m) ==
    IF s = <<>> \/ ~isdigit(s[1]) THEN m
    ELSE Magnitude(Tail(s), MulAdd(m, IndexIn(s[1], Digits) - 1))

RECURSIVE SkipSpace(_)
SkipSpace(s) == IF s /= <<>> /\ isspace(s[1]) THEN SkipSpace(Tail(s)) ELSE s

\* The low 32 bits <<lo, hi>> as a signed int.
Signed32(lo, hi) == IF hi >= 32768 THEN (hi - Limb) * Limb + lo ELSE hi * Limb + lo

\* Two's complement negation of <<lo, hi>>, as a signed int.
Neg32(lo, hi) ==
    IF lo = 0 /\ hi = 0 THEN 0
    ELSE IF lo = 0 THEN Signed32(0, (Limb - hi) % Limb)
    ELSE Signed32(Limb - lo, (Limb - 1 - hi))

INT_MAX == Signed32(Limb - 1, 32767)
INT_MIN == Signed32(0, 32768)

atoi(s, a) ==
    LET t == SkipSpace(s)
        neg == t /= <<>> /\ t[1] = "-"
        u == IF t /= <<>> /\ t[1] \in {"-", "+"} THEN Tail(t) ELSE t
        m == Magnitude(u, <<0, 0, 0, 0, 0>>)
        \* the magnitude exceeds LONG_MAX (for a negative number: -LONG_MIN)
        over64 == m[5] > 0 \/ (m[4] >= 32768 /\
                     ~(neg /\ m[4] = 32768 /\ m[3] = 0 /\ m[2] = 0 /\ m[1] = 0))
        over32 == m[5] > 0 \/ m[4] > 0 \/ m[3] > 0 \/ (m[2] >= 32768 /\
                     ~(neg /\ m[2] = 32768 /\ m[1] = 0))
    IN  IF a = "ILP32"
        THEN IF over32 THEN (IF neg THEN INT_MIN ELSE INT_MAX)
             ELSE IF neg THEN Neg32(m[1], m[2]) ELSE Signed32(m[1], m[2])
        ELSE IF over64 THEN (IF neg THEN 0 ELSE -1)
             ELSE IF neg THEN Neg32(m[1], m[2]) ELSE Signed32(m[1], m[2])

(*************************** value objects *********************************)

\* The result of a function that returns an object: the world and the object.
Ret(w, o) == [w |-> w, o |-> o]

createObject(w, type, ptr) ==
    LET hdr == [type |-> type, ptr |-> ptr, refcount |-> 1] IN
    IF w.objfreelist /= <<>>
    THEN LET o == Head(w.objfreelist) IN
         Ret([w EXCEPT !.objfreelist = Tail(@), !.heap[o] = hdr], o)
    ELSE Ret([w EXCEPT !.heap = Append(@, hdr)], Len(w.heap) + 1)

\* sdsnewlen(ptr, len) copies the first len bytes.
createStringObject(w, ptr, len) == createObject(w, "STRING", SubSeq(ptr, 1, len))

createListObject(w) == createObject(w, "LIST", <<>>)

createSetObject(w) == createObject(w, "SET", {})

incrRefCount(w, o) == [w EXCEPT !.heap[o].refcount = @ + 1]

\* The members of a set in the order dictRelease visits them.  The hash order
\* is not modelled: the members are taken by ascending header.
RECURSIVE SetOrder(_)
SetOrder(S) ==
    IF S = {} THEN <<>>
    ELSE LET m == CHOOSE x \in S : \A y \in S : x <= y
         IN  <<m>> \o SetOrder(S \ {m})

\* decrRefCount(o), and decrRefCount of each of os in turn (the free method
\* of a list and the key destructor of a set).
RECURSIVE decrRefCount(_, _), decrRefCountAll(_, _)
decrRefCount(w, o) ==
    LET hdr == w.heap[o]
        w1 == [w EXCEPT !.heap[o].refcount = @ - 1]
    IN  IF hdr.refcount - 1 /= 0 THEN w1
        ELSE LET w2 == CASE hdr.type = "LIST" -> decrRefCountAll(w1, hdr.ptr)
                         [] hdr.type = "SET" -> decrRefCountAll(w1, SetOrder(hdr.ptr))
                         [] OTHER -> w1
             IN  [w2 EXCEPT !.heap[o].ptr = FREED,
                            !.objfreelist = <<o>> \o @]

decrRefCountAll(w, os) ==
    IF os = <<>> THEN w
    ELSE decrRefCountAll(decrRefCount(w, Head(os)), Tail(os))

\* The bytes of a STRING object.
Str(w, o) == w.heap[o].ptr

(****************************** dict ***************************************)

\* dictFind: the entries of d whose key has the bytes of key (at most one).
dictFind(w, d, key) == {e \in d : Str(w, e.key) = Str(w, key)}

DICT_OK == "DICT_OK"
DICT_ERR == "DICT_ERR"

\* dictAdd on database j: DICT_ERR when the key is there.
dictAdd(w, j, key, val) ==
    IF dictFind(w, w.dict[j], key) /= {} THEN [w |-> w, o |-> DICT_ERR]
    ELSE [w |-> [w EXCEPT !.dict[j] = @ \cup {[key |-> key, val |-> val]}],
          o |-> DICT_OK]

\* dictReplace on database j: add, or free the entry's old value (the value
\* destructor) and store val in it; the entry keeps its key object.
dictReplace(w, j, key, val) ==
    LET r == dictAdd(w, j, key, val) IN
    IF r.o = DICT_OK THEN r.w
    ELSE LET e == CHOOSE e \in dictFind(w, w.dict[j], key) : TRUE
             w1 == decrRefCount(w, e.val)
         IN  [w1 EXCEPT !.dict[j] = (@ \ {e}) \cup {[key |-> e.key, val |-> val]}]

\* dictDelete on database j: unlink the entry, then the key destructor and the
\* value destructor.
dictDelete(w, j, key) ==
    LET es == dictFind(w, w.dict[j], key) IN
    IF es = {} THEN [w |-> w, o |-> DICT_ERR]
    ELSE LET e == CHOOSE e \in es : TRUE
             w1 == [w EXCEPT !.dict[j] = @ \ {e}]
         IN  [w |-> decrRefCount(decrRefCount(w1, e.key), e.val), o |-> DICT_OK]

\* The value of an object: the bytes of a string, the strings of a list in
\* order, the strings of a set.
Content(w, o) ==
    LET h == w.heap[o] IN
    CASE h.type = "LIST" -> [type |-> "LIST",
                             val |-> [i \in 1..Len(h.ptr) |-> Str(w, h.ptr[i])]]
      [] h.type = "SET" -> [type |-> "SET", val |-> {Str(w, m) : m \in h.ptr}]
      [] OTHER -> [type |-> "STRING", val |-> h.ptr]

\* The keyspace by value: per database, the keys with their values.
DictView(w) ==
    [j \in 1..dbnum |->
        {[key |-> Str(w, e.key), val |-> Content(w, e.val)] : e \in w.dict[j]}]

(************************** shared objects *********************************)

\* The shared reply objects, in the order createSharedObjects creates them.
SharedNames == <<"crlf", "ok", "err", "zerobulk", "nil", "zero", "one",
                 "minus1", "minus2", "minus3", "minus4", "pong",
                 "wrongtypeerr", "wrongtypeerrbulk", "nokeyerr",
                 "nokeyerrbulk", "space">>

wrongtypeerrText == B("-ERR Operation against a key holding the wrong kind of value\r\n")
nokeyerrText == B("-ERR no suck key\r\n")

SharedText ==
    [crlf |-> CRLF, ok |-> B("+OK\r\n"), err |-> B("-ERR\r\n"),
     zerobulk |-> B("0\r\n\r\n"), nil |-> B("nil\r\n"), zero |-> B("0\r\n"),
     one |-> B("1\r\n"), minus1 |-> B("-1\r\n"), minus2 |-> B("-2\r\n"),
     minus3 |-> B("-3\r\n"), minus4 |-> B("-4\r\n"), pong |-> B("+PONG\r\n"),
     wrongtypeerr |-> wrongtypeerrText,
     wrongtypeerrbulk |->
         itoa(2 - Len(wrongtypeerrText)) \o CRLF \o wrongtypeerrText,
     nokeyerr |-> nokeyerrText,
     nokeyerrbulk |-> itoa(2 - Len(nokeyerrText)) \o CRLF \o nokeyerrText,
     space |-> B(" ")]

\* shared.x is the header of the shared object x.
shared == [n \in {SharedNames[i] : i \in 1..Len(SharedNames)} |->
              CHOOSE i \in 1..Len(SharedNames) : SharedNames[i] = n]

createSharedObjects ==
    [i \in 1..Len(SharedNames) |->
        [type |-> "STRING", ptr |-> SharedText[SharedNames[i]], refcount |-> 1]]

(***************************** clients *************************************)

Cl(w, fd) == w.client[fd]

\* c->argv[i], with the C index.
Argv(w, fd, i) == w.client[fd].argv[i + 1]

Argc(w, fd) == Len(w.client[fd].argv)

\* aeCreateFileEvent: TRUE when the event is installed, FALSE for AE_ERR,
\* which is what it returns when the allocation of the event fails.
aeCreateFileEventOk(w) == ~w.aeerr

aeCreateFileEvent(w, fd, mask) == [w EXCEPT !.el = @ \cup {<<fd, mask>>}]

aeDeleteFileEvent(w, fd, mask) == [w EXCEPT !.el = @ \ {<<fd, mask>>}]

RemoveFd(list, fd) == SelectSeq(list, LAMBDA x : x /= fd)

\* c->argc = 0 leaves the pointers in the slots of argv.
freeClientArgv(w, fd) ==
    LET w1 == decrRefCountAll(w, Cl(w, fd).argv)
    IN  [w1 EXCEPT !.client[fd].argv = <<>>,
                   !.client[fd].argv0 =
                       IF Cl(w, fd).argv = <<>> THEN @ ELSE Cl(w, fd).argv[1]]

\* A faulty freeClient that leaves the writable handler installed.
freeClient_KeepWritable(w, fd) ==
    LET c == Cl(w, fd)
        w1 == aeDeleteFileEvent(w, fd, "READABLE")
        w2 == decrRefCountAll(w1, c.reply)
        w3 == freeClientArgv(w2, fd)
        w4 == [w3 EXCEPT !.net[fd].srv = "closed"]
    IN  IF \A i \in 1..Len(w4.clients) : w4.clients[i] /= fd
        THEN [w4 EXCEPT !.crashed = TRUE]
        ELSE [w4 EXCEPT !.clients = RemoveFd(@, fd),
                        !.client = [f \in DOMAIN @ \ {fd} |-> @[f]]]

freeClient(w, fd) ==
    LET c == Cl(w, fd)
        w1 == aeDeleteFileEvent(aeDeleteFileEvent(w, fd, "READABLE"), fd, "WRITABLE")
        \* listRelease(c->reply) calls the free method on every node
        w2 == decrRefCountAll(w1, c.reply)
        w3 == freeClientArgv(w2, fd)
        \* close(c->fd)
        w4 == [w3 EXCEPT !.net[fd].srv = "closed"]
    IN  IF \A i \in 1..Len(w4.clients) : w4.clients[i] /= fd
        THEN \* assert(ln != NULL) fails
             [w4 EXCEPT !.crashed = TRUE]
        ELSE [w4 EXCEPT !.clients = RemoveFd(@, fd),
                        !.client = [f \in DOMAIN @ \ {fd} |-> @[f]]]

\* A faulty resetClient that leaves bulklen as it is.
resetClient_KeepBulklen(w, fd) == freeClientArgv(w, fd)

\* resetClient prepares the client to process the next command.
resetClient(w, fd) == [freeClientArgv(w, fd) EXCEPT !.client[fd].bulklen = -1]

\* A faulty addReply that links the new node at the head of the list.
addReply_AtHead(w, fd, obj) ==
    IF Len(Cl(w, fd).reply) = 0 /\ ~aeCreateFileEventOk(w) THEN w
    ELSE LET w1 == IF Len(Cl(w, fd).reply) = 0
                   THEN aeCreateFileEvent(w, fd, "WRITABLE") ELSE w
             w2 == [w1 EXCEPT !.client[fd].reply = <<obj>> \o @]
         IN  incrRefCount(w2, obj)

addReply(w, fd, obj) ==
    IF Len(Cl(w, fd).reply) = 0 /\ ~aeCreateFileEventOk(w) THEN w
    ELSE LET w1 == IF Len(Cl(w, fd).reply) = 0
                   THEN aeCreateFileEvent(w, fd, "WRITABLE") ELSE w
             w2 == [w1 EXCEPT !.client[fd].reply = Append(@, obj)]
         IN  incrRefCount(w2, obj)

addReplySds(w, fd, s) ==
    LET r == createObject(w, "STRING", s)
    IN  decrRefCount(addReply(r.w, fd, r.o), r.o)

selectDb(w, fd, id) ==
    IF id < 0 \/ id >= dbnum THEN [w |-> w, o |-> "REDIS_ERR"]
    ELSE [w |-> [w EXCEPT !.client[fd].db = id + 1], o |-> "REDIS_OK"]

\* createClient(fd).  The structure exists before it is linked in
\* server.clients, which is the last step.  argv0 is what the slot argv[0]
\* holds while argc is 0: 0 for the bytes malloc left there.
createClient(w, fd) ==
    LET c == [db |-> 1, querybuf |-> <<>>, argv |-> <<>>, bulklen |-> -1,
              reply |-> <<>>, sentlen |-> 0, lastinteraction |-> w.now,
              argv0 |-> 0]
        w1 == [w EXCEPT !.client = [f \in DOMAIN @ \cup {fd} |->
                                       IF f = fd THEN c ELSE @[f]],
                        !.net[fd].srv = "open",
                        !.idle[fd] = [io |-> w.now, over |-> 0]]
    IN  IF ~aeCreateFileEventOk(w1) THEN freeClient(w1, fd)
        ELSE [aeCreateFileEvent(w1, fd, "READABLE") EXCEPT
                 !.clients = Append(@, fd)]

(***************************** commands ************************************)

pingCommand(w, fd) == addReply(w, fd, shared.pong)

echoCommand(w, fd) ==
    LET w1 == addReplySds(w, fd, itoa(Len(Str(w, Argv(w, fd, 1)))) \o CRLF)
        w2 == addReply(w1, fd, Argv(w, fd, 1))
    IN  addReply(w2, fd, shared.crlf)

\* A faulty setGenericCommand that leaves an existing key as it is for SET
\* too, and still replies +OK.
setGenericCommand_NoReplace(w, fd, nx) ==
    LET j == Cl(w, fd).db
        k == Argv(w, fd, 1)
        v == Argv(w, fd, 2)
        r == dictAdd(w, j, k, v)
    IN  IF r.o = DICT_ERR
        THEN IF ~nx
             THEN addReply([w EXCEPT !.dirty = @ + 1], fd, shared.ok)
             ELSE addReply(w, fd, shared.zero)
        ELSE LET w1 == incrRefCount(incrRefCount(r.w, k), v)
                 w2 == [w1 EXCEPT !.dirty = @ + 1]
             IN  addReply(w2, fd, IF nx THEN shared.one ELSE shared.ok)

setGenericCommand(w, fd, nx) ==
    LET j == Cl(w, fd).db
        k == Argv(w, fd, 1)
        v == Argv(w, fd, 2)
        r == dictAdd(w, j, k, v)
    IN  IF r.o = DICT_ERR
        THEN IF ~nx
             THEN LET w1 == incrRefCount(dictReplace(w, j, k, v), v)
                      w2 == [w1 EXCEPT !.dirty = @ + 1]
                  IN  addReply(w2, fd, shared.ok)
             ELSE addReply(w, fd, shared.zero)
        ELSE LET w1 == incrRefCount(incrRefCount(r.w, k), v)
                 w2 == [w1 EXCEPT !.dirty = @ + 1]
             IN  addReply(w2, fd, IF nx THEN shared.one ELSE shared.ok)

setCommand(w, fd) == setGenericCommand(w, fd, FALSE)

setnxCommand(w, fd) == setGenericCommand(w, fd, TRUE)

\* A faulty getCommand that ends the reply with a second CRLF.
getCommand_TwoCRLF(w, fd) ==
    LET de == dictFind(w, w.dict[Cl(w, fd).db], Argv(w, fd, 1)) IN
    IF de = {} THEN addReply(w, fd, shared.nil)
    ELSE LET o == (CHOOSE e \in de : TRUE).val IN
         IF w.heap[o].type /= "STRING"
         THEN addReply(w, fd, shared.wrongtypeerrbulk)
         ELSE LET w1 == addReplySds(w, fd, itoa(Len(Str(w, o))) \o CRLF)
                  w2 == addReply(w1, fd, o)
              IN  addReply(addReply(w2, fd, shared.crlf), fd, shared.crlf)

getCommand(w, fd) ==
    LET de == dictFind(w, w.dict[Cl(w, fd).db], Argv(w, fd, 1)) IN
    IF de = {} THEN addReply(w, fd, shared.nil)
    ELSE LET o == (CHOOSE e \in de : TRUE).val IN
         IF w.heap[o].type /= "STRING"
         THEN addReply(w, fd, shared.wrongtypeerrbulk)
         ELSE LET w1 == addReplySds(w, fd, itoa(Len(Str(w, o))) \o CRLF)
                  w2 == addReply(w1, fd, o)
              IN  addReply(w2, fd, shared.crlf)

delCommand(w, fd) ==
    LET r == dictDelete(w, Cl(w, fd).db, Argv(w, fd, 1)) IN
    IF r.o = DICT_OK
    THEN addReply([r.w EXCEPT !.dirty = @ + 1], fd, shared.one)
    ELSE addReply(w, fd, shared.zero)

existsCommand(w, fd) ==
    IF dictFind(w, w.dict[Cl(w, fd).db], Argv(w, fd, 1)) = {}
    THEN addReply(w, fd, shared.zero)
    ELSE addReply(w, fd, shared.one)

\* selectCommand hands a string literal to addReplySds for an invalid index:
\* the literal has no sds header and is later freed.  By w.ub the process
\* faults, or the bytes in front of the literal read as its length.
selectCommand(w, fd) ==
    The({IF r.o = "REDIS_ERR"
         THEN IF w.ub = "segv" THEN [w EXCEPT !.crashed = TRUE]
              ELSE addReplySds(w, fd, B("-ERR invalid DB index\r\n"))
         ELSE addReply(r.w, fd, shared.ok) :
            r \in {selectDb(w, fd, atoi(Str(w, Argv(w, fd, 1)), w.abi))}})

ErrSameKey == B("-ERR src and dest key are the same\r\n")

\* A faulty end of renameGenericCommand that leaves the source key in place.
renameDelete_KeepSrc(w, fd, nx) ==
    addReply([w EXCEPT !.dirty = @ + 1], fd, IF nx THEN shared.one ELSE shared.ok)

\* dictDelete(c->dict,c->argv[1]); server.dirty++; addReply(...)
renameDelete(w, fd, nx) ==
    LET w1 == dictDelete(w, Cl(w, fd).db, Argv(w, fd, 1)).w IN
    addReply([w1 EXCEPT !.dirty = @ + 1], fd, IF nx THEN shared.one ELSE shared.ok)

\* A faulty renameStore that takes no reference on the new key for the
\* entry it adds.
renameStore_NoIncr(w, fd, nx, o) ==
    LET j == Cl(w, fd).db
        dst == Argv(w, fd, 2)
        r == dictAdd(w, j, dst, o)
    IN  IF r.o = DICT_ERR
        THEN IF nx
             THEN addReply(decrRefCount(w, o), fd, shared.zero)
             ELSE renameDelete(dictReplace(w, j, dst, o), fd, nx)
        ELSE renameDelete(r.w, fd, nx)

\* o is the value of the source key, with the reference taken for the
\* destination entry.
renameStore(w, fd, nx, o) ==
    LET j == Cl(w, fd).db
        dst == Argv(w, fd, 2)
        r == dictAdd(w, j, dst, o)
    IN  IF r.o = DICT_ERR
        THEN IF nx
             THEN addReply(decrRefCount(w, o), fd, shared.zero)
             ELSE renameDelete(dictReplace(w, j, dst, o), fd, nx)
        ELSE renameDelete(incrRefCount(r.w, dst), fd, nx)

renameGenericCommand(w, fd, nx) ==
    LET de == dictFind(w, w.dict[Cl(w, fd).db], Argv(w, fd, 1)) IN
    IF Str(w, Argv(w, fd, 1)) = Str(w, Argv(w, fd, 2))
    THEN IF nx THEN addReply(w, fd, shared.minus3)
         ELSE addReplySds(w, fd, ErrSameKey)
    ELSE IF de = {}
    THEN addReply(w, fd, IF nx THEN shared.minus1 ELSE shared.nokeyerr)
    ELSE renameStore(incrRefCount(w, The(de).val), fd, nx, The(de).val)

renameCommand(w, fd) == renameGenericCommand(w, fd, FALSE)

renamenxCommand(w, fd) == renameGenericCommand(w, fd, TRUE)

\* A faulty moveEntry that adds the key to the target and keeps it in the
\* source too.
moveEntry_Copy(w, fd, dst, e) ==
    LET r == dictAdd(w, dst, e.key, e.val) IN
    IF r.o = DICT_ERR THEN addReply(w, fd, shared.zero)
    ELSE LET w1 == incrRefCount(incrRefCount(r.w, e.key), e.val)
         IN  addReply([w1 EXCEPT !.dirty = @ + 1], fd, shared.one)

\* e is the entry of the key in the source database, dst the target
\* database.
moveEntry(w, fd, dst, e) ==
    LET r == dictAdd(w, dst, e.key, e.val) IN
    IF r.o = DICT_ERR THEN addReply(w, fd, shared.zero)
    ELSE LET w1 == incrRefCount(incrRefCount(r.w, e.key), e.val)
             w2 == dictDelete(w1, Cl(w, fd).db, Argv(w, fd, 1)).w
         IN  addReply([w2 EXCEPT !.dirty = @ + 1], fd, shared.one)

\* sel is what selectDb returned; c->dict = src puts the client back on the
\* world before it.
moveSelected(w, fd, sel) ==
    LET src == Cl(w, fd).db
        dst == Cl(sel.w, fd).db
        de == dictFind(w, w.dict[src], Argv(w, fd, 1))
    IN  IF sel.o = "REDIS_ERR" THEN addReply(w, fd, shared.minus4)
        ELSE IF src = dst THEN addReply(w, fd, shared.minus3)
        ELSE IF de = {} THEN addReply(w, fd, shared.zero)
        ELSE moveEntry(w, fd, dst, The(de))

moveCommand(w, fd) ==
    The({moveSelected(w, fd, sel) :
            sel \in {selectDb(w, fd, atoi(Str(w, Argv(w, fd, 2)), w.abi))}})

\* A faulty pushGenericCommand that pushes onto a key of another type by
\* replacing its value with a list of the one element.
pushGenericCommand_Untyped(w, fd, where) ==
    LET j == Cl(w, fd).db
        k == Argv(w, fd, 1)
        v == Argv(w, fd, 2)
        r == createListObject(w)
        w1 == [r.w EXCEPT !.heap[r.o].ptr = <<v>>]
        w2 == IF dictAdd(w1, j, k, r.o).o = DICT_OK
              THEN incrRefCount(dictAdd(w1, j, k, r.o).w, k)
              ELSE dictReplace(w1, j, k, r.o)
    IN  addReply([incrRefCount(w2, v) EXCEPT !.dirty = @ + 1], fd, shared.ok)

\* where is "HEAD" (REDIS_HEAD) or "TAIL" (REDIS_TAIL)
pushGenericCommand(w, fd, where) ==
    LET j == Cl(w, fd).db
        k == Argv(w, fd, 1)
        v == Argv(w, fd, 2)
        de == dictFind(w, w.dict[j], k)
    IN  IF de = {}
        THEN LET r == createListObject(w)
                 w1 == [r.w EXCEPT !.heap[r.o].ptr = <<v>>]
                 w2 == dictAdd(w1, j, k, r.o).w
                 w3 == incrRefCount(incrRefCount(w2, k), v)
             IN  addReply([w3 EXCEPT !.dirty = @ + 1], fd, shared.ok)
        ELSE LET lobj == (CHOOSE e \in de : TRUE).val IN
             IF w.heap[lobj].type /= "LIST"
             THEN addReply(w, fd, shared.wrongtypeerr)
             ELSE LET w1 == [w EXCEPT !.heap[lobj].ptr =
                                IF where = "HEAD" THEN <<v>> \o @
                                ELSE Append(@, v)]
                      w2 == incrRefCount(w1, v)
                  IN  addReply([w2 EXCEPT !.dirty = @ + 1], fd, shared.ok)

lpushCommand(w, fd) == pushGenericCommand(w, fd, "HEAD")

rpushCommand(w, fd) == pushGenericCommand(w, fd, "TAIL")

\* The members of the set object whose bytes are those of ele (at most one).
setFind(w, set, ele) == {m \in w.heap[set].ptr : Str(w, m) = Str(w, ele)}

saddCommand(w, fd) ==
    LET j == Cl(w, fd).db
        k == Argv(w, fd, 1)
        v == Argv(w, fd, 2)
        de == dictFind(w, w.dict[j], k)
        r == IF de = {}
             THEN LET n == createSetObject(w)
                  IN  Ret(incrRefCount(dictAdd(n.w, j, k, n.o).w, k), n.o)
             ELSE Ret(w, (CHOOSE e \in de : TRUE).val)
    IN  IF r.w.heap[r.o].type /= "SET" THEN addReply(w, fd, shared.minus2)
        ELSE IF setFind(r.w, r.o, v) = {}
        THEN LET w1 == [r.w EXCEPT !.heap[r.o].ptr = @ \cup {v}]
                 w2 == incrRefCount(w1, v)
             IN  addReply([w2 EXCEPT !.dirty = @ + 1], fd, shared.one)
        ELSE addReply(r.w, fd, shared.zero)

(***************************** counters ************************************)

\* A long long is four 16-bit limbs in two's complement, least significant
\* first.
LLONG_MAX == <<Limb - 1, Limb - 1, Limb - 1, 32767>>
LLONG_MIN == <<0, 0, 0, 32768>>

\* The sum of the limbs a and b from limb i on, with the carry into limb i.
RECURSIVE AddLimbs(_, _, _, _)
AddLimbs(a, b, i, carry) ==
    IF i > 4 THEN <<>>
    ELSE <<(a[i] + b[i] + carry) % Limb>>
         \o AddLimbs(a, b, i + 1, (a[i] + b[i] + carry) \div Limb)

\* The signed sum of a and b, given as sum modulo 2^64, is out of range.
Overflows(a, b, sum) ==
    (a[4] >= 32768) = (b[4] >= 32768) /\ (sum[4] >= 32768) /= (a[4] >= 32768)

\* a + b modulo 2^64, and whether the signed sum is out of range.
Sum64(a, b, sum) == [sum |-> sum, overflow |-> Overflows(a, b, sum)]

Add64(a0, b0) ==
    The({The({Sum64(a, b, sum) : sum \in {AddLimbs(a, b, 1, 0)}}) :
            a \in {a0}, b \in {b0}})

Neg64(a0) ==
    The({AddLimbs(<<Limb - 1 - a[1], Limb - 1 - a[2], Limb - 1 - a[3],
                    Limb - 1 - a[4]>>, <<1, 0, 0, 0>>, 1, 0) : a \in {a0}})

\* The conversion of an int to long long.
LongLong(i0) ==
    The({<<i % Limb, (i \div Limb) % Limb,
           IF i < 0 THEN Limb - 1 ELSE 0, IF i < 0 THEN Limb - 1 ELSE 0>> :
            i \in {i0}})

\* The value of strtoll for a sign and the magnitude of the digits: a value
\* out of range gives LLONG_MAX or LLONG_MIN.
strtollValue(neg, m) ==
    IF m[5] > 0 \/ (m[4] >= 32768 /\
          ~(neg /\ m[4] = 32768 /\ m[3] = 0 /\ m[2] = 0 /\ m[1] = 0))
    THEN (IF neg THEN LLONG_MIN ELSE LLONG_MAX)
    ELSE IF neg THEN Neg64(<<m[1], m[2], m[3], m[4]>>)
    ELSE <<m[1], m[2], m[3], m[4]>>

\* strtoll(s, &eptr, 10): optional space and sign, then the digits there
\* are; no digits give 0.
strtoll(s) ==
    The({The({strtollValue(t /= <<>> /\ t[1] = "-", m) :
                 m \in {Magnitude(IF t /= <<>> /\ t[1] \in {"-", "+"}
                                  THEN Tail(t) ELSE t, <<0, 0, 0, 0, 0>>)}}) :
            t \in {SkipSpace(s)}})

\* The limbs of m from limb i down divided by 10, most significant first,
\* and then the remainder; rem is the remainder of the limbs above i.
RECURSIVE DivLimbs(_, _, _)
DivLimbs(m, i, rem) ==
    IF i = 0 THEN <<rem>>
    ELSE <<(rem * Limb + m[i]) \div 10>>
         \o DivLimbs(m, i - 1, (rem * Limb + m[i]) % 10)

\* The decimal digits of an unsigned magnitude of four limbs.
RECURSIVE ulltoa(_)
ulltoa(m) ==
    The({IF d[1] = 0 /\ d[2] = 0 /\ d[3] = 0 /\ d[4] = 0
         THEN <<Digits[d[5] + 1]>>
         ELSE ulltoa(<<d[4], d[3], d[2], d[1]>>) \o <<Digits[d[5] + 1]>> :
            d \in {DivLimbs(m, 4, 0)}})

\* sprintf("%lld") of a long long.
lltoa(v0) ==
    The({IF v[4] >= 32768 THEN <<"-">> \o ulltoa(Neg64(v)) ELSE ulltoa(v) :
            v \in {v0}})

\* A faulty incrDecrValue that counts from 0 whatever the key holds.
incrDecrValue_FromZero(w, fd) == LongLong(0)

\* The value incrDecrCommand reads.
incrDecrValue(w, fd) ==
    LET de == dictFind(w, w.dict[Cl(w, fd).db], Argv(w, fd, 1)) IN
    IF de = {} THEN LongLong(0)
    ELSE LET o == (CHOOSE e \in de : TRUE).val IN
         IF w.heap[o].type /= "STRING" THEN LongLong(0)
         ELSE strtoll(Str(w, o))

\* incrDecrCommand from createObject on, with the bytes of the new value.
incrDecrStore(w, fd, text) ==
    LET j == Cl(w, fd).db
        k == Argv(w, fd, 1)
        r == createObject(w, "STRING", text)
        a == dictAdd(r.w, j, k, r.o)
        w1 == IF a.o = DICT_ERR THEN dictReplace(r.w, j, k, r.o)
              ELSE incrRefCount(a.w, k)
        w2 == [w1 EXCEPT !.dirty = @ + 1]
    IN  addReply(addReply(w2, fd, r.o), fd, shared.crlf)

\* value += incr overflows for a sum out of long long: by w.ub the addition
\* traps or wraps around.
incrDecrSum(w, fd, s) ==
    IF s.overflow /\ w.ub = "segv" THEN [w EXCEPT !.crashed = TRUE]
    ELSE The({incrDecrStore(w, fd, text) : text \in {lltoa(s.sum)}})

\* incr is an int.
incrDecrCommand(w, fd, incr) ==
    The({incrDecrSum(w, fd, s) :
            s \in {Add64(incrDecrValue(w, fd), LongLong(incr))}})

incrCommand(w, fd) == incrDecrCommand(w, fd, 1)

decrCommand(w, fd) == incrDecrCommand(w, fd, -1)

incrbyCommand(w, fd) ==
    incrDecrCommand(w, fd, atoi(Str(w, Argv(w, fd, 2)), w.abi))

\* -incr overflows for INT_MIN: by w.ub the negation traps or wraps around
\* to INT_MIN.
decrbyNegated(w, fd, incr) ==
    IF incr = INT_MIN
    THEN IF w.ub = "segv" THEN [w EXCEPT !.crashed = TRUE]
         ELSE incrDecrCommand(w, fd, INT_MIN)
    ELSE incrDecrCommand(w, fd, 0 - incr)

decrbyCommand(w, fd) ==
    The({decrbyNegated(w, fd, incr) :
            incr \in {atoi(Str(w, Argv(w, fd, 2)), w.abi)}})

(****************************** lists **************************************)

\* listIndex(list, index) as a 1-based position, 0 for NULL: a negative
\* index counts from the tail, -1 being the last element.
listIndex(list, index) ==
    The({IF p >= 1 /\ p <= Len(list) THEN p ELSE 0 :
            p \in {The({IF i < 0 THEN Len(list) + i + 1 ELSE i + 1 :
                            i \in {index}})}})

\* listDelNode on the node at position pos of the list object o: unlink the
\* node and call the free method of the list, decrRefCount, on its value.
listDelNode(w, o, pos) ==
    LET list == w.heap[o].ptr
        w1 == [w EXCEPT !.heap[o].ptr =
                  SubSeq(list, 1, pos - 1) \o SubSeq(list, pos + 1, Len(list))]
    IN  decrRefCount(w1, list[pos])

\* The three replies of a bulk element: its length line, the object, CRLF.
addReplyBulk(w, fd, ele) ==
    LET w1 == addReplySds(w, fd, itoa(Len(Str(w, ele))) \o CRLF)
        w2 == addReply(w1, fd, ele)
    IN  addReply(w2, fd, shared.crlf)

llenCommand(w, fd) ==
    LET de == dictFind(w, w.dict[Cl(w, fd).db], Argv(w, fd, 1)) IN
    IF de = {} THEN addReply(w, fd, shared.zero)
    ELSE LET o == (CHOOSE e \in de : TRUE).val IN
         IF w.heap[o].type /= "LIST" THEN addReply(w, fd, shared.minus2)
         ELSE addReplySds(w, fd, itoa(Len(w.heap[o].ptr)) \o CRLF)

\* lindexCommand for the node ln of the list.
lindexReply(w, fd, list, ln) ==
    IF ln = 0 THEN addReply(w, fd, shared.nil)
    ELSE addReplyBulk(w, fd, list[ln])

lindexCommand(w, fd) ==
    LET de == dictFind(w, w.dict[Cl(w, fd).db], Argv(w, fd, 1)) IN
    IF de = {} THEN addReply(w, fd, shared.nil)
    ELSE LET o == (CHOOSE e \in de : TRUE).val IN
         IF w.heap[o].type /= "LIST"
         THEN addReply(w, fd, shared.wrongtypeerrbulk)
         ELSE The({lindexReply(w, fd, w.heap[o].ptr, ln) :
                      ln \in {listIndex(w.heap[o].ptr,
                                        atoi(Str(w, Argv(w, fd, 2)), w.abi))}})

\* A faulty lsetNode that stores the new value in the first node.
lsetNode_First(w, fd, o, ln) ==
    IF ln = 0
    THEN addReplySds(w, fd, B("-ERR index out of range\r\n"))
    ELSE LET w1 == decrRefCount(w, w.heap[o].ptr[1])
             w2 == [w1 EXCEPT !.heap[o].ptr[1] = Argv(w, fd, 3)]
             w3 == addReply(incrRefCount(w2, Argv(w, fd, 3)), fd, shared.ok)
         IN  [w3 EXCEPT !.dirty = @ + 1]

\* lsetCommand for the node ln of the list object o.
lsetNode(w, fd, o, ln) ==
    IF ln = 0
    THEN addReplySds(w, fd, B("-ERR index out of range\r\n"))
    ELSE LET w1 == decrRefCount(w, w.heap[o].ptr[ln])
             w2 == [w1 EXCEPT !.heap[o].ptr[ln] = Argv(w, fd, 3)]
             w3 == addReply(incrRefCount(w2, Argv(w, fd, 3)), fd, shared.ok)
         IN  [w3 EXCEPT !.dirty = @ + 1]

lsetCommand(w, fd) ==
    LET de == dictFind(w, w.dict[Cl(w, fd).db], Argv(w, fd, 1)) IN
    IF de = {} THEN addReply(w, fd, shared.nokeyerr)
    ELSE LET o == (CHOOSE e \in de : TRUE).val IN
         IF w.heap[o].type /= "LIST"
         THEN addReply(w, fd, shared.wrongtypeerr)
         ELSE The({lsetNode(w, fd, o, ln) :
                      ln \in {listIndex(w.heap[o].ptr,
                                        atoi(Str(w, Argv(w, fd, 2)), w.abi))}})

popGenericCommand(w, fd, where) ==
    LET de == dictFind(w, w.dict[Cl(w, fd).db], Argv(w, fd, 1)) IN
    IF de = {} THEN addReply(w, fd, shared.nil)
    ELSE LET o == (CHOOSE e \in de : TRUE).val IN
         IF w.heap[o].type /= "LIST"
         THEN addReply(w, fd, shared.wrongtypeerrbulk)
         ELSE LET list == w.heap[o].ptr
                  \* listFirst or listLast
                  ln == IF where = "HEAD" THEN Min(1, Len(list)) ELSE Len(list)
              IN  IF ln = 0 THEN addReply(w, fd, shared.nil)
                  ELSE LET w1 == addReplyBulk(w, fd, list[ln])
                           w2 == listDelNode(w1, o, ln)
                       IN  [w2 EXCEPT !.dirty = @ + 1]

lpopCommand(w, fd) == popGenericCommand(w, fd, "HEAD")

rpopCommand(w, fd) == popGenericCommand(w, fd, "TAIL")

\* The loop of lrangeCommand: rangelen elements from position ln on.
RECURSIVE lrangeLoop(_, _, _, _, _)
lrangeLoop(w, fd, list, ln, rangelen) ==
    IF rangelen = 0 THEN w
    ELSE lrangeLoop(addReplyBulk(w, fd, list[ln]), fd, list, ln + 1, rangelen - 1)

\* "convert negative indexes" of lrangeCommand and ltrimCommand.
convertIndex(i, llen) ==
    IF i < 0 THEN (IF llen + i < 0 THEN 0 ELSE llen + i) ELSE i

convertIndexes(start0, end0, llen) ==
    The({[start |-> convertIndex(start, llen), end |-> convertIndex(end, llen)] :
            start \in {start0}, end \in {end0}})

\* A faulty reply of lrangeCommand that leaves an end behind the list as it
\* is.
lrangeReply_NoClamp(w, fd, list, idx) ==
    IF idx.start > idx.end \/ idx.start >= Len(list)
    THEN addReply(w, fd, shared.zero)
    ELSE LET rangelen == (idx.end - idx.start) + 1
         IN  lrangeLoop(addReplySds(w, fd, itoa(rangelen) \o CRLF), fd, list,
                        idx.start + 1, Min(rangelen, Len(list) - idx.start))

\* lrangeCommand from "indexes sanity checks" on, with the converted indexes.
lrangeReply(w, fd, list, idx) ==
    IF idx.start > idx.end \/ idx.start >= Len(list)
    THEN \* out of range start or start > end result in empty list
         addReply(w, fd, shared.zero)
    ELSE LET end == IF idx.end >= Len(list) THEN Len(list) - 1 ELSE idx.end
             rangelen == (end - idx.start) + 1
         IN  lrangeLoop(addReplySds(w, fd, itoa(rangelen) \o CRLF), fd, list,
                        idx.start + 1, rangelen)

lrangeCommand(w, fd) ==
    LET de == dictFind(w, w.dict[Cl(w, fd).db], Argv(w, fd, 1)) IN
    IF de = {} THEN addReply(w, fd, shared.nil)
    ELSE LET o == (CHOOSE e \in de : TRUE).val IN
         IF w.heap[o].type /= "LIST"
         THEN addReply(w, fd, shared.wrongtypeerrbulk)
         ELSE The({lrangeReply(w, fd, w.heap[o].ptr, idx) :
                      idx \in {convertIndexes(atoi(Str(w, Argv(w, fd, 2)), w.abi),
                                              atoi(Str(w, Argv(w, fd, 3)), w.abi),
                                              Len(w.heap[o].ptr))}})

\* The loops of ltrimCommand: n times listDelNode of the first (the last) node.
RECURSIVE ltrimLoop(_, _, _, _)
ltrimLoop(w, o, where, n) ==
    IF n = 0 THEN w
    ELSE ltrimLoop(listDelNode(w, o, IF where = "HEAD" THEN 1
                                     ELSE Len(w.heap[o].ptr)),
                   o, where, n - 1)

\* A faulty trim that keeps one element more at the tail.
ltrimList_KeepOne(w, fd, o, idx) ==
    LET llen == Len(w.heap[o].ptr)
        empty == idx.start > idx.end \/ idx.start >= llen
        end == IF idx.end >= llen THEN llen - 1 ELSE idx.end
        ltrim == IF empty THEN llen ELSE idx.start
        rtrim == IF empty THEN 0 ELSE Max(llen - end - 2, 0)
        w1 == ltrimLoop(ltrimLoop(w, o, "HEAD", ltrim), o, "TAIL", rtrim)
    IN  [addReply(w1, fd, shared.ok) EXCEPT !.dirty = @ + 1]

\* ltrimCommand from "indexes sanity checks" on, with the converted indexes.
ltrimList(w, fd, o, idx) ==
    LET llen == Len(w.heap[o].ptr)
        \* out of range start or start > end result in empty list
        empty == idx.start > idx.end \/ idx.start >= llen
        end == IF idx.end >= llen THEN llen - 1 ELSE idx.end
        ltrim == IF empty THEN llen ELSE idx.start
        rtrim == IF empty THEN 0 ELSE llen - end - 1
        w1 == ltrimLoop(ltrimLoop(w, o, "HEAD", ltrim), o, "TAIL", rtrim)
    IN  [addReply(w1, fd, shared.ok) EXCEPT !.dirty = @ + 1]

ltrimCommand(w, fd) ==
    LET de == dictFind(w, w.dict[Cl(w, fd).db], Argv(w, fd, 1)) IN
    IF de = {} THEN addReply(w, fd, shared.nokeyerr)
    ELSE LET o == (CHOOSE e \in de : TRUE).val IN
         IF w.heap[o].type /= "LIST"
         THEN addReply(w, fd, shared.wrongtypeerr)
         ELSE The({ltrimList(w, fd, o, idx) :
                      idx \in {convertIndexes(atoi(Str(w, Argv(w, fd, 2)), w.abi),
                                              atoi(Str(w, Argv(w, fd, 3)), w.abi),
                                              Len(w.heap[o].ptr))}})

(******************************* sets **************************************)

\* A faulty sremCommand that replies 1 and leaves the member in the set.
sremCommand_Keep(w, fd) ==
    LET de == dictFind(w, w.dict[Cl(w, fd).db], Argv(w, fd, 1)) IN
    IF de = {} THEN addReply(w, fd, shared.zero)
    ELSE LET set == (CHOOSE e \in de : TRUE).val IN
         IF w.heap[set].type /= "SET" THEN addReply(w, fd, shared.minus2)
         ELSE LET ms == setFind(w, set, Argv(w, fd, 2)) IN
              IF ms /= {}
              THEN addReply([w EXCEPT !.dirty = @ + 1], fd, shared.one)
              ELSE addReply(w, fd, shared.zero)

\* dictDelete on the set calls the key destructor, decrRefCount, on the member.
sremCommand(w, fd) ==
    LET de == dictFind(w, w.dict[Cl(w, fd).db], Argv(w, fd, 1)) IN
    IF de = {} THEN addReply(w, fd, shared.zero)
    ELSE LET set == (CHOOSE e \in de : TRUE).val IN
         IF w.heap[set].type /= "SET" THEN addReply(w, fd, shared.minus2)
         ELSE LET ms == setFind(w, set, Argv(w, fd, 2)) IN
              IF ms /= {}
              THEN LET m == CHOOSE m \in ms : TRUE
                       w1 == [w EXCEPT !.heap[set].ptr = @ \ {m}]
                       w2 == decrRefCount(w1, m)
                   IN  addReply([w2 EXCEPT !.dirty = @ + 1], fd, shared.one)
              ELSE addReply(w, fd, shared.zero)

sismemberCommand(w, fd) ==
    LET de == dictFind(w, w.dict[Cl(w, fd).db], Argv(w, fd, 1)) IN
    IF de = {} THEN addReply(w, fd, shared.zero)
    ELSE LET set == (CHOOSE e \in de : TRUE).val IN
         IF w.heap[set].type /= "SET" THEN addReply(w, fd, shared.minus2)
         ELSE IF setFind(w, set, Argv(w, fd, 2)) /= {}
         THEN addReply(w, fd, shared.one)
         ELSE addReply(w, fd, shared.zero)

scardCommand(w, fd) ==
    LET de == dictFind(w, w.dict[Cl(w, fd).db], Argv(w, fd, 1)) IN
    IF de = {} THEN addReply(w, fd, shared.zero)
    ELSE LET o == (CHOOSE e \in de : TRUE).val IN
         IF w.heap[o].type /= "SET" THEN addReply(w, fd, shared.minus2)
         ELSE addReplySds(w, fd, itoa(Cardinality(w.heap[o].ptr)) \o CRLF)

qsortCompareSetsByCardinality(w, s1, s2) ==
    Cardinality(w.heap[s1].ptr) - Cardinality(w.heap[s2].ptr)

\* qsort(dv, ...): the sets from the smallest to the largest.  The order of
\* sets of equal cardinality is left open by qsort; they keep their order
\* here, and only the order in which members are emitted depends on it.
RECURSIVE qsort(_, _)
qsort(w, dv) ==
    IF dv = <<>> THEN <<>>
    ELSE LET i == CHOOSE i \in 1..Len(dv) :
                    /\ \A j \in 1..Len(dv) :
                          qsortCompareSetsByCardinality(w, dv[i], dv[j]) <= 0
                    /\ \A j \in 1..(i - 1) :
                          qsortCompareSetsByCardinality(w, dv[j], dv[i]) > 0
         IN  <<dv[i]>> \o qsort(w, SubSeq(dv, 1, i - 1) \o SubSeq(dv, i + 1, Len(dv)))

\* The first loop of sinterCommand, from argument j on: the set objects of
\* the keys, or the shared reply for the first key that is missing or holds
\* no set.
RECURSIVE sinterGather(_, _, _, _)
sinterGather(w, fd, j, dv) ==
    IF j >= Argc(w, fd) - 1 THEN [err |-> 0, dv |-> dv]
    ELSE LET de == dictFind(w, w.dict[Cl(w, fd).db], Argv(w, fd, j + 1)) IN
         IF de = {} THEN [err |-> shared.nil, dv |-> dv]
         ELSE LET setobj == (CHOOSE e \in de : TRUE).val IN
              IF w.heap[setobj].type /= "SET"
              THEN [err |-> shared.wrongtypeerrbulk, dv |-> dv]
              ELSE sinterGather(w, fd, j + 1, Append(dv, setobj))

\* The while loop of sinterCommand over the members still to visit; the
\* result is the world and the cardinality.
RECURSIVE sinterLoop(_, _, _, _, _)
sinterLoop(w, fd, dv, todo, cardinality) ==
    IF todo = <<>> THEN Ret(w, cardinality)
    ELSE LET ele == Head(todo) IN
         IF \E j \in 2..Len(dv) : setFind(w, dv[j], ele) = {}
         THEN \* at least one set does not contain the member
              sinterLoop(w, fd, dv, Tail(todo), cardinality)
         ELSE sinterLoop(addReplyBulk(w, fd, ele), fd, dv, Tail(todo),
                         cardinality + 1)

\* A faulty sinterCommand that tests the members against the second set only.
sinterCommand_SecondOnly(w, fd) ==
    LET g == sinterGather(w, fd, 0, <<>>) IN
    IF g.err /= 0 THEN addReply(w, fd, g.err)
    ELSE LET dv == qsort(w, g.dv)
             r == createObject(w, "STRING", NULLPTR)
             lenobj == r.o
             w1 == decrRefCount(addReply(r.w, fd, lenobj), lenobj)
             l == sinterLoop(w1, fd, SubSeq(dv, 1, Min(Len(dv), 2)),
                             SetOrder(w.heap[dv[1]].ptr), 0)
         IN  [l.w EXCEPT !.heap[lenobj].ptr = itoa(l.o) \o CRLF]

\* The count line is an object with no bytes yet, queued first and given
\* its bytes after the loop.
sinterCommand(w, fd) ==
    LET g == sinterGather(w, fd, 0, <<>>) IN
    IF g.err /= 0 THEN addReply(w, fd, g.err)
    ELSE LET dv == qsort(w, g.dv)
             r == createObject(w, "STRING", NULLPTR)
             lenobj == r.o
             w1 == decrRefCount(addReply(r.w, fd, lenobj), lenobj)
             l == sinterLoop(w1, fd, dv, SetOrder(w.heap[dv[1]].ptr), 0)
         IN  [l.w EXCEPT !.heap[lenobj].ptr = itoa(l.o) \o CRLF]

(*************************** command table *********************************)

(***************************** persistence *********************************)

\* The bytes of a file are numbers.  The bytes of keys and values are
\* characters in the rest of the model: Ord and Chr pass from one to the
\* other by the ASCII code.  Printable holds the characters of the codes
\* 32 to 126; the double quote and the backquote, which a string of this
\* module cannot hold, are named "dquote" and "bquote".
Printable ==
    B(" !") \o <<"dquote">> \o B("#$%&'()*+,-./0123456789:;<=>?@")
    \o B("ABCDEFGHIJKLMNOPQRSTUVWXYZ[\\]^_") \o <<"bquote">>
    \o B("abcdefghijklmnopqrstuvwxyz{|}~")

Ord(ch) ==
    CASE ch = "\t" -> 9
      [] ch = "\n" -> 10
      [] ch = "\r" -> 13
      [] OTHER -> 31 + IndexIn(ch, Printable)

Chr(n) ==
    CASE n = 9 -> "\t"
      [] n = 10 -> "\n"
      [] n = 13 -> "\r"
      [] OTHER -> Printable[n - 31]

Ords(s) == [i \in 1..Len(s) |-> Ord(s[i])]

Chrs(f) == [i \in 1..Len(f) |-> Chr(f[i])]

REDIS_SELECTDB == 254
REDIS_EOF == 255

\* o->type as saveDb writes it and loadDb reads it.
TypeCode(type) ==
    CASE type = "STRING" -> 0 [] type = "LIST" -> 1 [] type = "SET" -> 2

\* A faulty htonl that leaves the bytes in the order of a little-endian host.
htonl_Host(n) ==
    <<n % 256, (n \div 256) % 256, (n \div 65536) % 256, (n \div 16777216) % 256>>

\* The four bytes of a uint32_t in network order.
htonl(n) ==
    <<(n \div 16777216) % 256, (n \div 65536) % 256, (n \div 256) % 256, n % 256>>

ntohl(b) == ((b[1] * 256 + b[2]) * 256 + b[3]) * 256 + b[4]

\* The length and the bytes of each element object of os in turn.
RECURSIVE saveElements(_, _)
saveElements(w, os) ==
    IF os = <<>> THEN <<>>
    ELSE htonl(Len(Str(w, Head(os)))) \o Ords(Str(w, Head(os)))
         \o saveElements(w, Tail(os))

\* What saveDb writes for the value o.  The members of a set are written in
\* the order of the dict iterator, taken as in SetOrder.
saveValue(w, o) ==
    CASE w.heap[o].type = "STRING" ->
            htonl(Len(Str(w, o))) \o Ords(Str(w, o))
      [] w.heap[o].type = "LIST" ->
            htonl(Len(w.heap[o].ptr)) \o saveElements(w, w.heap[o].ptr)
      [] w.heap[o].type = "SET" ->
            htonl(Cardinality(w.heap[o].ptr))
            \o saveElements(w, SetOrder(w.heap[o].ptr))

\* The entries of database j whose keys are the headers ks, in turn.
RECURSIVE saveEntries(_, _, _)
saveEntries(w, j, ks) ==
    IF ks = <<>> THEN <<>>
    ELSE LET e == CHOOSE e \in w.dict[j] : e.key = Head(ks) IN
         <<TypeCode(w.heap[e.val].type)>>
         \o htonl(Len(Str(w, e.key))) \o Ords(Str(w, e.key))
         \o saveValue(w, e.val)
         \o saveEntries(w, j, Tail(ks))

\* The databases from j on: an empty one is skipped, another one is the
\* SELECT DB opcode, its index and its entries in the order of the dict
\* iterator, taken by ascending key header.
RECURSIVE saveDicts(_, _)
saveDicts(w, j) ==
    IF j > dbnum THEN <<>>
    ELSE (IF w.dict[j] = {} THEN <<>>
          ELSE <<REDIS_SELECTDB>> \o htonl(j - 1)
               \o saveEntries(w, j, SetOrder({e.key : e \in w.dict[j]})))
         \o saveDicts(w, j + 1)

(* The files.  fopen(name,"w") truncates the inode of an existing name or   *)
(* makes a new one; a stream is the inode it was opened on, and what it    *)
(* holds is written from offset 0 when it is flushed, whatever the names   *)
(* of the inode are by then.                                               *)

FileOf(fs, name) == IF name \in DOMAIN fs.dir THEN fs.ino[fs.dir[name]] ELSE NULLPTR

fopenW(fs, name) ==
    IF name \in DOMAIN fs.dir
    THEN [fs |-> [fs EXCEPT !.ino[fs.dir[name]] = <<>>], fp |-> fs.dir[name]]
    ELSE [fs |-> [dir |-> [n \in DOMAIN fs.dir \cup {name} |->
                              IF n = name THEN Len(fs.ino) + 1 ELSE fs.dir[n]],
                  ino |-> Append(fs.ino, <<>>)],
          fp |-> Len(fs.ino) + 1]

fflush(fs, fp, bytes) ==
    [fs EXCEPT !.ino[fp] = bytes \o SubSeq(@, Len(bytes) + 1, Len(@))]

unlink(fs, name) == [fs EXCEPT !.dir = [n \in DOMAIN @ \ {name} |-> @[n]]]

\* rename(2): [fs, o], o = -1 when there is no file of the old name.
rename(fs, old, new) ==
    IF old \notin DOMAIN fs.dir THEN [fs |-> fs, o |-> -1]
    ELSE [fs |-> [fs EXCEPT !.dir = [n \in (DOMAIN @ \cup {new}) \ {old} |->
                                        IF n = new THEN @[old] ELSE @[n]]],
          o |-> 0]

\* What random() returns at its first calls in a process that never calls
\* srandom(), by the number k of calls before.
RandomValues ==
    <<1804289383, 846930886, 1681692777, 1714636915, 1957747793, 424238335,
      719885386, 1649760492, 596516649, 1189641421>>

Random(k) == RandomValues[(k % Len(RandomValues)) + 1]

\* snprintf(tmpfile,256,"temp-%d.%ld.rdb",(int)time(NULL),(long int)random())
tmpfileName(t, r) == "temp-" \o ToString(t) \o "." \o ToString(r) \o ".rdb"

\* The bytes saveDb writes for the memory m of a process.
Snapshot(m) == Ords(B("REDIS0000")) \o saveDicts(m, 1) \o <<REDIS_EOF>>

(* saveDb("dump.rdb") in three steps, for a process of memory m that has   *)
(* made k calls of random(): sv is [pc, tmpfile, fp, res], and fault is    *)
(* what the environment fails in the step.  The files of the model are     *)
(* shorter than a stdio buffer, so the bytes reach the file when fclose    *)
(* flushes the stream.                                                     *)

\* History: the calls of processCommand made so far, which orders the states
\* of the keyspace in time.
RECURSIVE LogLength(_)
LogLength(logs) ==
    IF logs = <<>> THEN 0 ELSE Len(Head(logs)) + LogLength(Tail(logs))

Clock(w) == LogLength(w.log)

SaveStart == [pc |-> "start", tmpfile |-> "", fp |-> 0, res |-> "none"]

\* snprintf and fopen.
saveOpen(fs, sv, t, k, fault) ==
    IF fault = "efopen"
    THEN [fs |-> fs, sv |-> [sv EXCEPT !.pc = "done", !.res = "REDIS_ERR"]]
    ELSE The({[fs |-> f.fs,
               sv |-> [sv EXCEPT !.pc = "opened", !.fp = f.fp,
                                 !.tmpfile = tmpfileName(t, Random(k))]] :
                f \in {fopenW(fs, tmpfileName(t, Random(k)))}})

\* From the first fwrite to fclose.  A failed dictGetIterator returns after
\* fclose alone; fwrite returning 0 (a write error, or a key of no bytes)
\* goes to werr: fclose and unlink; what fclose returns is not looked at
\* ("eflush": the flush fails and the file stays empty).  For "eiter" the
\* iterator of the first database with keys fails, for "werr" the first
\* fwrite; the bytes buffered before a key of no bytes are left out.
saveWrite(fs, sv, m, fault) ==
    IF fault = "eiter" /\ \E j \in 1..dbnum : m.dict[j] /= {}
    THEN [fs |-> fflush(fs, sv.fp, Ords(B("REDIS0000"))),
          sv |-> [sv EXCEPT !.pc = "done", !.res = "REDIS_ERR"]]
    ELSE IF fault = "werr"
            \/ \E j \in 1..dbnum : \E e \in m.dict[j] : Str(m, e.key) = <<>>
    THEN [fs |-> unlink(fs, sv.tmpfile),
          sv |-> [sv EXCEPT !.pc = "done", !.res = "REDIS_ERR"]]
    ELSE IF fault = "eflush"
    THEN [fs |-> fs, sv |-> [sv EXCEPT !.pc = "closed"]]
    ELSE [fs |-> fflush(fs, sv.fp, Snapshot(m)), sv |-> [sv EXCEPT !.pc = "closed"]]

\* rename(tmpfile,filename), and unlink(tmpfile) when it fails.
saveRename(fs, sv, fault) ==
    The({IF fault = "erename" \/ r.o = -1
         THEN [fs |-> unlink(fs, sv.tmpfile),
               sv |-> [sv EXCEPT !.pc = "done", !.res = "REDIS_ERR"]]
         ELSE [fs |-> r.fs, sv |-> [sv EXCEPT !.pc = "done", !.res = "REDIS_OK"]] :
            r \in {rename(fs, sv.tmpfile, "dump.rdb")}})

\* One step of saveDb.
saveStep(fs, sv, m, t, k, fault) ==
    CASE sv.pc = "start" -> saveOpen(fs, sv, t, k, fault)
      [] sv.pc = "opened" -> saveWrite(fs, sv, m, fault)
      [] sv.pc = "closed" -> saveRename(fs, sv, fault)
      [] OTHER -> [fs |-> fs, sv |-> sv]

(* The child of saveDbBackground: its memory is the parent's at the fork. *)
(* view, stamp, written, touched and left are history: the keyspace at the *)
(* fork and the time of the fork,                                          *)
(* the bytes of dump.rdb when the child's rename has succeeded, whether a  *)
(* step other than that rename changed dump.rdb, and whether the child's   *)
(* failed saveDb left its temporary file.                                  *)

\* The wait status of a process that called exit(code), and of one that a
\* signal killed.
W_EXITCODE(code) == code * 256
SIGKILL == 9
WEXITSTATUS(statloc) == (statloc \div 256) % 256

\* A step of the child i that has not terminated: a step of its saveDb, and
\* exit(0) or exit(1) after the last.
childStep(w, i, fault) ==
    The({[w EXCEPT
            !.disk = r.fs,
            !.children[i].sv = r.sv,
            !.children[i].statloc =
                IF r.sv.pc = "done"
                THEN W_EXITCODE(IF r.sv.res = "REDIS_OK" THEN 0 ELSE 1) ELSE @,
            !.children[i].written =
                IF r.sv.res = "REDIS_OK" THEN FileOf(r.fs, "dump.rdb") ELSE @,
            !.children[i].touched =
                @ \/ (r.sv.res /= "REDIS_OK"
                      /\ FileOf(r.fs, "dump.rdb") /= FileOf(w.disk, "dump.rdb")),
            !.children[i].left =
                r.sv.res = "REDIS_ERR" /\ r.sv.tmpfile \in DOMAIN r.fs.dir,
            !.boot.saved = IF r.sv.res = "REDIS_OK" THEN w.children[i].view ELSE @,
            !.boot.prev = IF r.sv.res = "REDIS_OK" THEN w.boot.cur ELSE @,
            !.boot.cur = IF r.sv.res = "REDIS_OK"
                         THEN [stamp |-> w.children[i].stamp,
                               view |-> w.children[i].view]
                         ELSE @] :
        r \in {saveStep(w.disk, w.children[i].sv, w.children[i].mem, w.now,
                        w.children[i].nrandom, fault)}})

Running(w) == {i \in 1..Len(w.children) : w.children[i].sv.pc /= "done"}

\* n steps of the oldest child that runs, while the parent is in a call.
RECURSIVE childRun(_, _)
childRun(w, n) ==
    IF n = 0 \/ Running(w) = {} THEN w
    ELSE childRun(childStep(w, CHOOSE i \in Running(w) :
                                   \A k \in Running(w) : i <= k, "null"), n - 1)

\* saveDb("dump.rdb") of the server process.  w.ub is the step the
\* environment fails, and w.sched the steps a child makes while the call is
\* between fopen and fclose, and between fclose and rename.  boot is history:
\* boot.last what the call found and left.
saveDone(w, w3, sv) ==
    LET w4 == IF sv.res = "REDIS_OK"
              THEN [w3 EXCEPT !.dirty = 0, !.lastsave = w3.now,
                              !.boot.saved = DictView(w),
                              !.boot.captured = DictView(w),
                              !.boot.prev = w3.boot.cur,
                              !.boot.cur = [stamp |-> Clock(w), view |-> DictView(w)]]
              ELSE w3
    IN  Ret([w4 EXCEPT !.boot.last =
                [who |-> "SAVE", res |-> sv.res,
                 before |-> FileOf(w.disk, "dump.rdb"),
                 after |-> FileOf(w4.disk, "dump.rdb"),
                 left |-> sv.tmpfile \in DOMAIN w4.disk.dir,
                 ddirty |-> w4.dirty - w.dirty,
                 dlastsave |-> w4.lastsave - w.lastsave,
                 bytes |-> Snapshot(w),
                 reported |-> "none"]], sv.res)

saveClose(w, w2, sv) ==
    IF sv.pc = "done" THEN saveDone(w, w2, sv)
    ELSE The({saveDone(w, [w2 EXCEPT !.disk = r.fs], r.sv) :
                r \in {saveRename(w2.disk, sv, w.ub)}})

saveBody(w, w1, sv) ==
    IF sv.pc = "done" THEN saveDone(w, w1, sv)
    ELSE The({The({saveClose(w, w2, r.sv) :
                     w2 \in {childRun([w1 EXCEPT !.disk = r.fs], w.sched[2])}}) :
                r \in {saveWrite(w1.disk, sv, w, w.ub)}})

saveDb(w) ==
    The({The({saveBody(w, w1, r.sv) :
                w1 \in {childRun([w EXCEPT !.disk = r.fs, !.nrandom = @ + 1],
                                 w.sched[1])}}) :
            r \in {saveOpen(w.disk, SaveStart, w.now, w.nrandom, w.ub)}})

saveCommand(w, fd) ==
    The({addReply([r.w EXCEPT !.boot.last.reported =
                      IF r.o = "REDIS_OK" THEN SharedText.ok ELSE SharedText.err],
                  fd, IF r.o = "REDIS_OK" THEN shared.ok ELSE shared.err) :
            r \in {saveDb(w)}})

\* A faulty saveDbBackground that does not set bgsaveinprogress.
saveDbBackground_NoFlag(w) ==
    IF w.bgsaveinprogress /= 0 THEN Ret(w, "REDIS_ERR")
    ELSE Ret([w EXCEPT
                !.children = Append(@,
                    [sv |-> SaveStart,
                     mem |-> [heap |-> w.heap, dict |-> w.dict],
                     nrandom |-> w.nrandom,
                     statloc |-> 0,
                     view |-> DictView(w),
                     stamp |-> Clock(w),
                     written |-> NULLPTR,
                     touched |-> FALSE,
                     left |-> FALSE])], "REDIS_OK")

\* fork() and what follows it in the parent.  With w.ub = "efork" fork
\* returns -1, which is not 0 either.
saveDbBackground(w) ==
    IF w.bgsaveinprogress /= 0 THEN Ret(w, "REDIS_ERR")
    ELSE IF w.ub = "efork" THEN Ret([w EXCEPT !.bgsaveinprogress = 1], "REDIS_OK")
    ELSE Ret([w EXCEPT
                !.bgsaveinprogress = 1,
                !.children = Append(@,
                    [sv |-> SaveStart,
                     mem |-> [heap |-> w.heap, dict |-> w.dict],
                     nrandom |-> w.nrandom,
                     statloc |-> 0,
                     view |-> DictView(w),
                     stamp |-> Clock(w),
                     written |-> NULLPTR,
                     touched |-> FALSE,
                     left |-> FALSE])], "REDIS_OK")

ErrBgsave == B("-ERR background save already in progress\r\n")

bgsaveCommand(w, fd) ==
    IF w.bgsaveinprogress /= 0 THEN addReplySds(w, fd, ErrBgsave)
    ELSE The({addReply(r.w, fd, IF r.o = "REDIS_OK" THEN shared.ok ELSE shared.err) :
                r \in {saveDbBackground(w)}})

\* fread(ptr, n, 1, fp) at offset pos returns 0: n is 0, or the file ends
\* before n bytes.
Short(f, pos, n) == n = 0 \/ pos + n - 1 > Len(f)

\* exit(1), assert and oom end the process.
Exit(w) == [w EXCEPT !.crashed = TRUE]

\* The listlen elements of the list or set o from offset pos on:
\* [w, pos, ok], ok false for a short read or a member read twice.
RECURSIVE loadElements(_, _, _, _, _)
loadElements(w, f, pos, o, listlen) ==
    IF listlen = 0 THEN [w |-> w, pos |-> pos, ok |-> TRUE]
    ELSE IF Short(f, pos, 4) THEN [w |-> w, pos |-> pos, ok |-> FALSE]
    ELSE The({
        IF vlen > 0 /\ Short(f, pos + 4, vlen)
        THEN [w |-> w, pos |-> pos, ok |-> FALSE]
        ELSE The({
            IF w.heap[o].type = "LIST"
            THEN loadElements([ele.w EXCEPT !.heap[o].ptr = Append(@, ele.o)],
                              f, pos + 4 + vlen, o, listlen - 1)
            ELSE IF setFind(ele.w, o, ele.o) /= {}
            THEN [w |-> ele.w, pos |-> pos, ok |-> FALSE]
            ELSE loadElements([ele.w EXCEPT !.heap[o].ptr = @ \cup {ele.o}],
                              f, pos + 4 + vlen, o, listlen - 1) :
            ele \in {createObject(w, "STRING",
                                  Chrs(SubSeq(f, pos + 4, pos + 3 + vlen)))}}) :
        vlen \in {ntohl(SubSeq(f, pos, pos + 3))}})

\* The string value at offset pos: [w, pos, o, ok].
loadString(w, f, pos) ==
    IF Short(f, pos, 4) THEN [w |-> w, pos |-> pos, o |-> 0, ok |-> FALSE]
    ELSE The({
        IF vlen > 0 /\ Short(f, pos + 4, vlen)
        THEN [w |-> w, pos |-> pos, o |-> 0, ok |-> FALSE]
        ELSE The({[w |-> r.w, pos |-> pos + 4 + vlen, o |-> r.o, ok |-> TRUE] :
                    r \in {createObject(w, "STRING",
                                        Chrs(SubSeq(f, pos + 4, pos + 3 + vlen)))}}) :
        vlen \in {ntohl(SubSeq(f, pos, pos + 3))}})

\* The list or set value at offset pos: [w, pos, o, ok].
loadList(w, f, pos, type) ==
    IF Short(f, pos, 4) THEN [w |-> w, pos |-> pos, o |-> 0, ok |-> FALSE]
    ELSE The({The({[w |-> l.w, pos |-> l.pos, o |-> r.o, ok |-> l.ok] :
                     l \in {loadElements(r.w, f, pos + 4, r.o,
                                         ntohl(SubSeq(f, pos, pos + 3)))}}) :
                r \in {IF type = 1 THEN createListObject(w)
                       ELSE createSetObject(w)}})

loadValue(w, f, pos, type) ==
    CASE type = 0 -> loadString(w, f, pos)
      [] type \in {1, 2} -> loadList(w, f, pos, type)
      [] OTHER -> [w |-> w, pos |-> pos, o |-> 0, ok |-> FALSE]

\* dictAdd(d, createStringObject(key,klen), o) for the value v read.
loadAdd(w, d, key, v) ==
    The({dictAdd(k.w, d, k.o, v.o) : k \in {createStringObject(w, key, Len(key))}})

\* The loop of loadDb at offset pos, d the database selected.
RECURSIVE loadEntries(_, _, _, _)
loadEntries(w, f, pos, d) ==
    IF Short(f, pos, 1) THEN Exit(w)
    ELSE IF f[pos] = REDIS_EOF THEN w
    ELSE IF Short(f, pos + 1, 4) THEN Exit(w)
    ELSE The({
        IF f[pos] = REDIS_SELECTDB
        THEN IF len >= dbnum THEN Exit(w)
             ELSE loadEntries(w, f, pos + 5, len + 1)
        ELSE IF Short(f, pos + 5, len) THEN Exit(w)
        ELSE The({
            IF ~v.ok THEN Exit(v.w)
            ELSE The({IF r.o = DICT_ERR THEN Exit(r.w)
                      ELSE loadEntries(r.w, f, v.pos, d) :
                         r \in {loadAdd(v.w, d,
                                        Chrs(SubSeq(f, pos + 5, pos + 4 + len)), v)}}) :
            v \in {loadValue(w, f, pos + 5 + len, f[pos])}}) :
        len \in {ntohl(SubSeq(f, pos + 1, pos + 4))}})

\* loadDb("dump.rdb")
loadDb(w) ==
    LET f == FileOf(w.disk, "dump.rdb") IN
    IF f = NULLPTR THEN Ret(w, "REDIS_ERR")
    ELSE IF Short(f, 1, 9) THEN Ret(Exit(w), "REDIS_ERR")
    ELSE IF SubSeq(f, 1, 9) /= Ords(B("REDIS0000")) THEN Ret(w, "REDIS_ERR")
    ELSE Ret(loadEntries(w, f, 10, 1), "REDIS_OK")

\* The process is started: initServer, then loadDb.  The sockets of the
\* process before are closed, and it has no child.
main(w) ==
    The({[r.w EXCEPT !.boot.loaded = r.o = "REDIS_OK",
                     !.boot.captured = DictView(r.w)] :
            r \in {loadDb([w EXCEPT
                              !.heap = createSharedObjects,
                              !.objfreelist = <<>>,
                              !.dict = [j \in 1..dbnum |-> {}],
                              !.dirty = 0,
                              !.clients = <<>>,
                              !.client = [f \in {} |-> 0],
                              !.el = {},
                              !.crashed = FALSE,
                              !.bgsaveinprogress = 0,
                              !.lastsave = w.now,
                              !.cronloops = 0,
                              !.nrandom = 0,
                              !.children = <<>>,
                              !.net = [c \in DOMAIN @ |->
                                          [@[c] EXCEPT !.srv = IF @ = "open"
                                                               THEN "closed"
                                                               ELSE @]]])}})

Cmd(name, proc, arity, type) ==
    [name |-> B(name), proc |-> proc, arity |-> arity, type |-> type]

cmdTable == <<
    Cmd("get", "getCommand", 2, "INLINE"),
    Cmd("set", "setCommand", 3, "BULK"),
    Cmd("setnx", "setnxCommand", 3, "BULK"),
    Cmd("del", "delCommand", 2, "INLINE"),
    Cmd("exists", "existsCommand", 2, "INLINE"),
    Cmd("incr", "incrCommand", 2, "INLINE"),
    Cmd("decr", "decrCommand", 2, "INLINE"),
    Cmd("rpush", "rpushCommand", 3, "BULK"),
    Cmd("lpush", "lpushCommand", 3, "BULK"),
    Cmd("rpop", "rpopCommand", 2, "INLINE"),
    Cmd("lpop", "lpopCommand", 2, "INLINE"),
    Cmd("llen", "llenCommand", 2, "INLINE"),
    Cmd("lindex", "lindexCommand", 3, "INLINE"),
    Cmd("lset", "lsetCommand", 4, "BULK"),
    Cmd("lrange", "lrangeCommand", 4, "INLINE"),
    Cmd("ltrim", "ltrimCommand", 4, "INLINE"),
    Cmd("sadd", "saddCommand", 3, "BULK"),
    Cmd("srem", "sremCommand", 3, "BULK"),
    Cmd("sismember", "sismemberCommand", 3, "BULK"),
    Cmd("scard", "scardCommand", 2, "INLINE"),
    Cmd("sinter", "sinterCommand", -2, "INLINE"),
    Cmd("smembers", "sinterCommand", 2, "INLINE"),
    Cmd("incrby", "incrbyCommand", 3, "INLINE"),
    Cmd("decrby", "decrbyCommand", 3, "INLINE"),
    Cmd("randomkey", "randomkeyCommand", 1, "INLINE"),
    Cmd("select", "selectCommand", 2, "INLINE"),
    Cmd("move", "moveCommand", 3, "INLINE"),
    Cmd("rename", "renameCommand", 3, "INLINE"),
    Cmd("renamenx", "renamenxCommand", 3, "INLINE"),
    Cmd("keys", "keysCommand", 2, "INLINE"),
    Cmd("dbsize", "dbsizeCommand", 1, "INLINE"),
    Cmd("ping", "pingCommand", 1, "INLINE"),
    Cmd("echo", "echoCommand", 2, "BULK"),
    Cmd("save", "saveCommand", 1, "INLINE"),
    Cmd("bgsave", "bgsaveCommand", 1, "INLINE"),
    Cmd("shutdown", "shutdownCommand", 1, "INLINE"),
    Cmd("lastsave", "lastsaveCommand", 1, "INLINE"),
    Cmd("type", "typeCommand", 2, "INLINE"),
    Cmd("", "NULL", 0, "INLINE") >>

\* The handlers modelled so far; a peer of the specifications sends only
\* commands whose handler is among them.
Call(proc, w, fd) ==
    CASE proc = "pingCommand" -> pingCommand(w, fd)
      [] proc = "echoCommand" -> echoCommand(w, fd)
      [] proc = "setCommand" -> setCommand(w, fd)
      [] proc = "setnxCommand" -> setnxCommand(w, fd)
      [] proc = "getCommand" -> getCommand(w, fd)
      [] proc = "delCommand" -> delCommand(w, fd)
      [] proc = "existsCommand" -> existsCommand(w, fd)
      [] proc = "lpushCommand" -> lpushCommand(w, fd)
      [] proc = "rpushCommand" -> rpushCommand(w, fd)
      [] proc = "saddCommand" -> saddCommand(w, fd)
      [] proc = "selectCommand" -> selectCommand(w, fd)
      [] proc = "saveCommand" -> saveCommand(w, fd)
      [] proc = "bgsaveCommand" -> bgsaveCommand(w, fd)
      [] proc = "renameCommand" -> renameCommand(w, fd)
      [] proc = "renamenxCommand" -> renamenxCommand(w, fd)
      [] proc = "moveCommand" -> moveCommand(w, fd)
      [] proc = "incrCommand" -> incrCommand(w, fd)
      [] proc = "decrCommand" -> decrCommand(w, fd)
      [] proc = "incrbyCommand" -> incrbyCommand(w, fd)
      [] proc = "decrbyCommand" -> decrbyCommand(w, fd)
      [] proc = "sremCommand" -> sremCommand(w, fd)
      [] proc = "sismemberCommand" -> sismemberCommand(w, fd)
      [] proc = "scardCommand" -> scardCommand(w, fd)
      [] proc = "sinterCommand" -> sinterCommand(w, fd)
      [] proc = "llenCommand" -> llenCommand(w, fd)
      [] proc = "lindexCommand" -> lindexCommand(w, fd)
      [] proc = "lsetCommand" -> lsetCommand(w, fd)
      [] proc = "lpopCommand" -> lpopCommand(w, fd)
      [] proc = "rpopCommand" -> rpopCommand(w, fd)
      [] proc = "lrangeCommand" -> lrangeCommand(w, fd)
      [] proc = "ltrimCommand" -> ltrimCommand(w, fd)
      [] OTHER -> [w EXCEPT !.crashed = TRUE]

(***************************************************************************)
(* lookupCommand.  The loop ends on a NULL name, but the entry that ends   *)
(* cmdTable has the name "", so for a name that is in no entry the loop    *)
(* runs past the end of the table and reads what lies behind it, which is  *)
(* undefined: w.ub says what the build makes of it, "null" (the memory     *)
(* behind the table reads as a NULL name and lookupCommand returns NULL)   *)
(* or "segv" (it reads as a wild pointer and strcmp faults).               *)
(* The result is the index of the entry, 0 for NULL, -1 for the fault.     *)
(***************************************************************************)
lookupCommand(w, name) ==
    IF \E j \in 1..Len(cmdTable) : cmdTable[j].name = name
    THEN CHOOSE j \in 1..Len(cmdTable) :
            /\ cmdTable[j].name = name
            /\ \A i \in 1..(j - 1) : cmdTable[i].name /= name
    ELSE IF w.ub = "null" THEN 0 ELSE -1

(************************* command dispatcher ******************************)

RECURSIVE Concat(_)
Concat(ss) == IF ss = <<>> THEN <<>> ELSE Head(ss) \o Concat(Tail(ss))

\* The bytes of the stream of connection fd that the parser has taken out
\* of the query buffer.
Consumed(w, fd) ==
    Len(Concat(w.net[fd].script)) - Len(w.net[fd].inq) - Len(Cl(w, fd).querybuf)

\* History: processCommand, called for client fd, took this branch, with
\* these arguments, this bulklen, and the parser at this place of the stream.
Logged(w, fd, res) ==
    [w EXCEPT !.log[fd] = Append(@,
        [argv |-> [i \in 1..Argc(w, fd) |-> Str(w, Cl(w, fd).argv[i])],
         res |-> res,
         bulklen |-> Cl(w, fd).bulklen,
         pos |-> Consumed(w, fd)])]

\* History: client fd is destroyed for this cause, with this query buffer.
Cause(w, fd, res) ==
    [w EXCEPT !.log[fd] = Append(@,
        [argv |-> <<>>, res |-> res,
         bulklen |-> Cl(w, fd).bulklen,
         qlen |-> Len(Cl(w, fd).querybuf),
         lf |-> strchrLF(Cl(w, fd).querybuf) /= 0])]

ErrUnknown == B("-ERR unknown command\r\n")
ErrArity == B("-ERR wrong number of arguments\r\n")
ErrBulk == B("-ERR invalid bulk write count\r\n")

\* cmd->proc(c); resetClient(c); return 1;
Exec(w, fd, cmd) ==
    Ret(resetClient(Call(cmd.proc, Logged(w, fd, "exec"), fd), fd), 1)

ArityMismatch(cmd, argc) ==
    (cmd.arity > 0 /\ cmd.arity /= argc) \/ argc < 0 - cmd.arity

\* The bulk branch once c->bulklen is set: with the payload in the buffer
\* already the command is executed at once.
processBulkPayload(w, fd, cmd) ==
    The({IF Len(c.querybuf) >= c.bulklen
         THEN The({Exec([r.w EXCEPT
                            !.client[fd].argv = Append(@, r.o),
                            !.client[fd].querybuf = sdsrange(@, c.bulklen)],
                         fd, cmd) :
                      r \in {createStringObject(w, c.querybuf, c.bulklen - 2)}})
         ELSE Ret(w, 1) : c \in {Cl(w, fd)}})

\* A faulty bulk branch that destroys the client on a length out of range.
processBulkHeader_Close(w, fd, cmd) ==
    LET last == Argv(w, fd, Argc(w, fd) - 1)
        w1 == decrRefCount(w, last)
        \* c->argc--
        w2 == [w1 EXCEPT !.client[fd].argv = SubSeq(@, 1, Len(@) - 1)]
    IN  The({IF bulklen < 0 \/ bulklen > BULK_MAX
             THEN Ret(freeClient([w2 EXCEPT !.log = Logged(w, fd, "badbulk").log],
                                 fd), 0)
             ELSE processBulkPayload(
                      [w2 EXCEPT
                          !.client[fd].bulklen = bulklen + 2,
                          !.log = Logged([w EXCEPT !.client[fd].bulklen = bulklen + 2],
                                         fd, "bulkhdr").log],
                      fd, cmd) :
                bulklen \in {atoi(Str(w, last), w.abi)}})

\* The bulk branch of processCommand: the last argument is the bulk length.
processBulkHeader(w, fd, cmd) ==
    LET last == Argv(w, fd, Argc(w, fd) - 1)
        w1 == decrRefCount(w, last)
        \* c->argc--
        w2 == [w1 EXCEPT !.client[fd].argv = SubSeq(@, 1, Len(@) - 1)]
    IN  The({IF bulklen < 0 \/ bulklen > BULK_MAX
             THEN Ret(resetClient(addReplySds(
                          [w2 EXCEPT !.log = Logged(w, fd, "badbulk").log],
                          fd, ErrBulk), fd), 1)
             ELSE processBulkPayload(
                      [w2 EXCEPT
                          !.client[fd].bulklen = bulklen + 2,
                          !.log = Logged([w EXCEPT !.client[fd].bulklen = bulklen + 2],
                                         fd, "bulkhdr").log],
                      fd, cmd) :
                bulklen \in {atoi(Str(w, last), w.abi)}})

(***************************************************************************)
(* processCommand returns 1 when the client is still there and 0 when it   *)
(* was destroyed.  With argc = 0 it reads argv[0], which was never set or  *)
(* is left over from an earlier command.  When the header it points to is  *)
(* a live STRING object again, taken from the free list by a later         *)
(* createObject, the call goes on with the bytes of that object, which     *)
(* sdstolower changes in place; otherwise the read is undefined (bytes of  *)
(* malloc, a released sds, a list or a dict): by w.ub the process faults,  *)
(* or the bytes it finds there name no command.                            *)
(***************************************************************************)
processCommandCode(w, fd) ==
    LET h == IF Argc(w, fd) = 0 THEN Cl(w, fd).argv0 ELSE Argv(w, fd, 0) IN
    IF Argc(w, fd) = 0
       /\ (h = 0 \/ w.heap[h].refcount = 0 \/ w.heap[h].type /= "STRING")
    THEN IF w.ub = "segv" THEN Ret([Logged(w, fd, "unknown") EXCEPT !.crashed = TRUE], 0)
         ELSE Ret(resetClient(addReplySds(Logged(w, fd, "unknown"),
                                          fd, ErrUnknown), fd), 1)
    ELSE
    LET w1 == [w EXCEPT !.heap[h].ptr = sdstolower(@)]
        name == Str(w1, h)
        j == lookupCommand(w1, name)
    IN  IF name = B("quit")
        THEN Ret(freeClient(Logged(w1, fd, "quit"), fd), 0)
        ELSE IF j = -1
        THEN Ret([Logged(w1, fd, "unknown") EXCEPT !.crashed = TRUE], 0)
        ELSE IF j = 0
        THEN Ret(resetClient(addReplySds(Logged(w1, fd, "unknown"),
                                         fd, ErrUnknown), fd), 1)
        ELSE IF ArityMismatch(cmdTable[j], Argc(w1, fd))
        THEN Ret(resetClient(addReplySds(Logged(w1, fd, "arity"),
                                         fd, ErrArity), fd), 1)
        ELSE IF cmdTable[j].type = "BULK" /\ Cl(w1, fd).bulklen = -1
        THEN processBulkHeader(w1, fd, cmdTable[j])
        ELSE Exec(w1, fd, cmdTable[j])

(***************************************************************************)
(* History: what a call of processCommand did, kept with its log entry.    *)
(***************************************************************************)

Occurs(x, seq) == Cardinality({i \in 1..Len(seq) : seq[i] = x})

\* The references held on headers, each as <<holder kind, holder, place,
\* header>>: keyspace entries hold their key and their value, lists and sets
\* their elements, clients the nodes of the reply list and the argv slots,
\* and the table of shared objects holds each shared object once.
RefSlots(w) ==
    LET live == {h \in 1..Len(w.heap) : w.heap[h].refcount /= 0}
        lists == {h \in live : w.heap[h].type = "LIST"}
        sets == {h \in live : w.heap[h].type = "SET"}
        fds == DOMAIN w.client
    IN  UNION {{<<"key", j, e, e.key>> : e \in w.dict[j]} : j \in 1..dbnum}
        \cup UNION {{<<"val", j, e, e.val>> : e \in w.dict[j]} : j \in 1..dbnum}
        \cup UNION {{<<"list", h, i, w.heap[h].ptr[i]>> : i \in 1..Len(w.heap[h].ptr)}
                      : h \in lists}
        \cup UNION {{<<"set", h, m, m>> : m \in w.heap[h].ptr} : h \in sets}
        \cup UNION {{<<"reply", f, i, w.client[f].reply[i]>>
                        : i \in 1..Len(w.client[f].reply)} : f \in fds}
        \cup UNION {{<<"argv", f, i, w.client[f].argv[i]>>
                        : i \in 1..Len(w.client[f].argv)} : f \in fds}
        \cup {<<"shared", o, 0, o>> : o \in 1..Len(SharedNames)}

\* Every header's refcount is the number of references held on it, and the
\* free list holds exactly the headers without a reference, each once.
HeapOK(w) ==
    LET slots == RefSlots(w) IN
    \A o \in 1..Len(w.heap) :
        /\ w.heap[o].refcount = Cardinality({s \in slots : s[4] = o})
        /\ Occurs(o, w.objfreelist) = (IF w.heap[o].refcount = 0 THEN 1 ELSE 0)

Observe(w0, r, fd) ==
    LET w1 == r.w
        there == fd \in DOMAIN w1.client
        n0 == Len(Cl(w0, fd).reply)
        eff == [alive |-> r.o = 1 /\ ~w1.crashed /\ there,
                newreply |-> IF there
                             THEN [i \in 1..(Len(Cl(w1, fd).reply) - n0) |->
                                      Str(w1, Cl(w1, fd).reply[n0 + i])]
                             ELSE <<>>,
                argc |-> IF there THEN Argc(w1, fd) ELSE 0,
                bulklen |-> IF there THEN Cl(w1, fd).bulklen ELSE -1,
                ddirty |-> w1.dirty - w0.dirty,
                bgsave |-> w0.bgsaveinprogress /= 0,
                forked |-> Len(w1.children) - Len(w0.children),
                before |-> DictView(w0),
                after |-> DictView(w1),
                db |-> Cl(w0, fd).db,
                dbafter |-> IF there THEN Cl(w1, fd).db ELSE 0,
                heapok |-> HeapOK(w1)]
        n0l == Len(w0.log[fd])
    IN  Ret([w1 EXCEPT !.log[fd] =
                [i \in 1..Len(@) |->
                    IF i <= n0l THEN @[i]
                    ELSE [argv |-> @[i].argv, res |-> @[i].res,
                          bulklen |-> @[i].bulklen, pos |-> @[i].pos,
                          eff |-> eff]]], r.o)

\* A client as its peer and the other clients can tell it.
ClientView(w, f) ==
    LET c == Cl(w, f) IN
    [db |-> c.db, querybuf |-> c.querybuf, bulklen |-> c.bulklen,
     sentlen |-> c.sentlen, lastinteraction |-> c.lastinteraction,
     argv |-> [i \in 1..Len(c.argv) |-> Str(w, c.argv[i])],
     reply |-> [i \in 1..Len(c.reply) |-> Str(w, c.reply[i])]]

OthersView(w, fd) == [f \in DOMAIN w.client \ {fd} |-> ClientView(w, f)]

\* freeClient for a cause, with the history of what it changed.
Destroyed(w, w1, fd) ==
    LET eff == [others |-> OthersView(w1, fd) = OthersView(w, fd),
                before |-> DictView(w),
                after |-> DictView(w1),
                ddirty |-> w1.dirty - w.dirty,
                heapok |-> HeapOK(w1)]
    IN  [w1 EXCEPT !.log[fd][Len(w1.log[fd])] =
            [argv |-> @.argv, res |-> @.res, bulklen |-> @.bulklen,
             qlen |-> @.qlen, lf |-> @.lf, eff |-> eff]]

Destroy(w, fd, res) ==
    The({Destroyed(w, w1, fd) : w1 \in {freeClient(Cause(w, fd, res), fd)}})

\* processCommand, with the history of the call.
processCommand(w, fd) == Observe(w, processCommandCode(w, fd), fd)

(**************************** protocol parser ******************************)

\* The objects of the tokens of one line: the first REDIS_MAX_ARGS pieces of
\* the split, the empty ones dropped.
RECURSIVE CreateArgs(_, _, _)
CreateArgs(w, fd, toks) ==
    IF toks = <<>> THEN w
    ELSE IF Head(toks) = <<>> THEN CreateArgs(w, fd, Tail(toks))
    ELSE LET r == createObject(w, "STRING", Head(toks))
         IN  CreateArgs([r.w EXCEPT !.client[fd].argv = Append(@, r.o)],
                        fd, Tail(toks))

\* The line up to the LF at position p, without the LF and without a CR
\* before it.
LineOf(buf, p) ==
    IF p > 1 /\ buf[p - 1] = "\r" THEN SubSeq(buf, 1, p - 2)
    ELSE SubSeq(buf, 1, p - 1)

\* readQueryFromClient from the label again: on.
RECURSIVE Again(_, _)
Again(w, fd) ==
    LET c == Cl(w, fd) IN
    IF c.bulklen = -1
    THEN LET p == strchrLF(c.querybuf) IN
         IF p > 0
         THEN LET query == LineOf(c.querybuf, p)
                  w1 == [w EXCEPT !.client[fd].querybuf = sdsrange(@, p)]
              IN  IF Len(query) = 0 THEN w1   \* ignore empty query
                  ELSE LET toks == sdssplitlen(query)
                           w2 == CreateArgs(w1, fd,
                                     SubSeq(toks, 1, Min(Len(toks), REDIS_MAX_ARGS)))
                       IN  The({IF r.o = 1 /\ Len(Cl(r.w, fd).querybuf) > 0
                                THEN Again(r.w, fd)
                                ELSE r.w : r \in {processCommand(w2, fd)}})
         ELSE IF Len(c.querybuf) >= 1024
         THEN Destroy(w, fd, "protoerr")   \* client protocol error
         ELSE w
    ELSE IF c.bulklen <= Len(c.querybuf)
    THEN \* copy everything but the final CRLF as final argument
         LET r == createStringObject(w, c.querybuf, c.bulklen - 2)
             w1 == [r.w EXCEPT !.client[fd].argv = Append(@, r.o),
                               !.client[fd].querybuf = sdsrange(@, c.bulklen)]
         IN  processCommand(w1, fd).w
    ELSE w

\* readQueryFromClient, with what read() returned: rd.nread is the count or
\* -1, rd.errno the error, and the bytes are the next of those in flight.
readQueryFromClient(w, fd, rd) ==
    IF rd.nread = -1 /\ rd.errno /= "EAGAIN"
    THEN Destroy(w, fd, "readerr")
    ELSE IF rd.nread = -1 THEN w
    ELSE IF rd.nread = 0
    THEN Destroy(w, fd, "closed")   \* client closed connection
    ELSE LET data == SubSeq(w.net[fd].inq, 1, rd.nread)
             w1 == [w EXCEPT !.net[fd].inq = sdsrange(@, rd.nread),
                             !.idle[fd] = [io |-> w.now, over |-> 0],
                             !.client[fd].querybuf = @ \o data,
                             !.client[fd].lastinteraction = w.now]
         IN  Again(w1, fd)

(****************************** reply queue ********************************)

\* The loop of sendReplyToClient.  room is the number of bytes the socket
\* still takes in this event; with no room left write() returns -1.  The
\* result is the world and the last value of nwritten.
RECURSIVE SendLoop(_, _, _, _)
SendLoop(w, fd, room, nwritten) ==
    LET c == Cl(w, fd) IN
    IF Len(c.reply) = 0 THEN Ret(w, nwritten)
    ELSE LET o == Head(c.reply)
             objlen == Len(Str(w, o))
         IN  IF objlen = 0
             THEN SendLoop(decrRefCount(
                      [w EXCEPT !.client[fd].reply = Tail(@)], o), fd, room, nwritten)
             ELSE IF room = 0 THEN Ret(w, -1)
             ELSE LET n == Min(objlen - c.sentlen, room)
                      w1 == [w EXCEPT
                               !.sent[fd] = @ \o SubSeq(Str(w, o), c.sentlen + 1,
                                                        c.sentlen + n),
                               !.idle[fd] = [io |-> w.now, over |-> 0],
                               !.client[fd].sentlen = @ + n]
                      \* if we fully sent the object on head go to the next one
                      w2 == IF c.sentlen + n = objlen
                            THEN decrRefCount(
                                   [w1 EXCEPT !.client[fd].reply = Tail(@),
                                              !.client[fd].sentlen = 0], o)
                            ELSE w1
                  IN  SendLoop(w2, fd, room - n, n)

\* A faulty sendReplyToClient that leaves the writable handler installed
\* when the queue is drained.
sendReplyToClient_KeepHandler(w, fd, room, errno) ==
    LET r == SendLoop(w, fd, room, 0)
        totwritten == Len(r.w.sent[fd]) - Len(w.sent[fd])
        w1 == IF totwritten > 0
              THEN [r.w EXCEPT !.client[fd].lastinteraction = w.now]
              ELSE r.w
    IN  IF r.o = -1 /\ errno /= "EAGAIN"
        THEN Destroy(r.w, fd, "writeerr")
        ELSE IF Len(Cl(w1, fd).reply) = 0
        THEN [w1 EXCEPT !.client[fd].sentlen = 0]
        ELSE w1

\* totwritten is the number of bytes the loop wrote.
sendReplyToClient(w, fd, room, errno) ==
    LET r == SendLoop(w, fd, room, 0)
        totwritten == Len(r.w.sent[fd]) - Len(w.sent[fd])
        w1 == IF totwritten > 0
              THEN [r.w EXCEPT !.client[fd].lastinteraction = w.now]
              ELSE r.w
    IN  IF r.o = -1 /\ errno /= "EAGAIN"
        THEN Destroy(r.w, fd, "writeerr")
        ELSE IF Len(Cl(w1, fd).reply) = 0
        THEN aeDeleteFileEvent([w1 EXCEPT !.client[fd].sentlen = 0], fd, "WRITABLE")
        ELSE w1

(********************************* cron ************************************)

\* server.maxidletime, as the "timeout" directive of the configuration sets
\* it.
maxidletime == 2

\* server.saveparams, as the "save" directives of the configuration set it.
saveparams == <<[seconds |-> 3, changes |-> 1], [seconds |-> 1, changes |-> 2]>>

\* The loop of closeTimedoutClients over the clients not yet visited.
RECURSIVE closeTimedoutLoop(_, _)
closeTimedoutLoop(w, fds) ==
    IF fds = <<>> THEN w
    ELSE IF w.now - Cl(w, Head(fds)).lastinteraction > maxidletime
    THEN closeTimedoutLoop(Destroy(w, Head(fds), "timeout"), Tail(fds))
    ELSE closeTimedoutLoop(w, Tail(fds))

\* A faulty closeTimedoutClients that closes a client as soon as it is idle
\* for maxidletime.
closeTimedoutClients_AtLimit(w) ==
    LET idlers == SelectSeq(w.clients, LAMBDA f :
                     w.now - Cl(w, f).lastinteraction >= maxidletime)
    IN  IF idlers = <<>> THEN w ELSE Destroy(w, Head(idlers), "timeout")

closeTimedoutClients(w) == closeTimedoutLoop(w, w.clients)

\* wait4(-1,&statloc,WNOHANG,NULL): [w, pid, statloc].  The oldest child
\* that has terminated is reaped; pid is 0 when the children all run and -1
\* when there is no child, and statloc is then not written: w.ub says
\* whether WEXITSTATUS of what it holds is 0.
wait4(w) ==
    LET dead == {i \in 1..Len(w.children) : w.children[i].sv.pc = "done"}
        i == CHOOSE k \in dead : \A l \in dead : k <= l
    IN  IF w.children = <<>>
        THEN [w |-> w, pid |-> -1,
              statloc |-> IF w.ub = "zero" THEN 0 ELSE W_EXITCODE(1)]
        ELSE IF dead = {} THEN [w |-> w, pid |-> 0, statloc |-> 0]
        ELSE [w |-> [w EXCEPT !.children =
                        SubSeq(@, 1, i - 1) \o SubSeq(@, i + 1, Len(@)),
                        !.boot.captured = w.children[i].view],
              pid |-> i, statloc |-> w.children[i].statloc]

\* The branch of serverCron when a background save is in progress.
\* boot.captured is history: the keyspace of the save that last counted as
\* done.
cronReap(w) ==
    The({IF r.pid = 0 THEN w
         ELSE IF WEXITSTATUS(r.statloc) = 0
         THEN [r.w EXCEPT !.dirty = 0, !.lastsave = w.now, !.bgsaveinprogress = 0]
         ELSE [r.w EXCEPT !.bgsaveinprogress = 0, !.boot.captured = w.boot.captured] :
            r \in {wait4(w)}})

\* The loop of serverCron over the save rules from rule j on.
RECURSIVE cronSave(_, _)
cronSave(w, j) ==
    IF j > Len(saveparams) THEN w
    ELSE IF w.dirty >= saveparams[j].changes
            /\ w.now - w.lastsave > saveparams[j].seconds
    THEN saveDbBackground(w).w
    ELSE cronSave(w, j + 1)

\* serverCron.  The hash tables of the model have no size, so nothing is
\* resized; cronloops is kept modulo 10, which is all that is read of it.
\* cronlog is history.
serverCronCode(w) ==
    LET loops == w.cronloops
        w1 == [w EXCEPT !.cronloops = (@ + 1) % 10]
        w2 == IF loops % 10 = 0 THEN closeTimedoutClients(w1) ELSE w1
    IN  IF w2.bgsaveinprogress /= 0 THEN cronReap(w2) ELSE cronSave(w2, 1)

serverCron(w) ==
    The({[w1 EXCEPT
            !.idle = [c \in DOMAIN @ |->
                        IF c \in DOMAIN w1.client /\ w.now - @[c].io > maxidletime
                        THEN [@[c] EXCEPT !.over = @ + 1] ELSE @[c]],
            !.cronlog =
               [ran |-> TRUE,
                loops |-> w.cronloops,
                inprogress |-> w.bgsaveinprogress /= 0,
                dirty |-> w.dirty,
                dirtyafter |-> w1.dirty,
                elapsed |-> w.now - w.lastsave,
                lastsave |-> w.lastsave,
                lastsaveafter |-> w1.lastsave,
                inprogressafter |-> w1.bgsaveinprogress /= 0,
                started |-> IF w.bgsaveinprogress = 0
                            THEN Len(w1.children) - Len(w.children) ELSE 0,
                reaped |-> IF w.bgsaveinprogress = 0 \/ w1.bgsaveinprogress /= 0
                           THEN "none"
                           ELSE IF w.children = <<>> THEN "nochild"
                           ELSE LET st == wait4(w).statloc IN
                                IF st = W_EXITCODE(0) THEN "exit0"
                                ELSE IF st = W_EXITCODE(1) THEN "exit1"
                                ELSE "signal",
                closed |-> {[fd |-> f, idle |-> w.now - w.idle[f].io] :
                               f \in DOMAIN w.client \ DOMAIN w1.client}]] :
        w1 \in {serverCronCode(w)}})

(************************* the world and the actions ***********************)

\* The current state as a world; ub and aeerr are what the environment
\* decides for the handler that runs: the outcome of an undefined read and
\* whether the event loop fails to allocate a file event.
World(ub, aeerr) ==
    [heap |-> heap, objfreelist |-> objfreelist, dict |-> dict, dirty |-> dirty,
     clients |-> clients, client |-> client, el |-> el, crashed |-> crashed,
     abi |-> abi, net |-> net, disk |-> disk, sent |-> sent, log |-> log,
     boot |-> boot, bgsaveinprogress |-> bgsaveinprogress,
     lastsave |-> lastsave, cronloops |-> cronloops, nrandom |-> nrandom,
     now |-> now, children |-> children, idle |-> idle, cronlog |-> cronlog,
     ub |-> ub, aeerr |-> aeerr, sched |-> <<0, 0>>]

Install(w) ==
    /\ heap' = w.heap
    /\ objfreelist' = w.objfreelist
    /\ dict' = w.dict
    /\ dirty' = w.dirty
    /\ clients' = w.clients
    /\ client' = w.client
    /\ el' = w.el
    /\ crashed' = w.crashed
    /\ net' = w.net
    /\ disk' = w.disk
    /\ sent' = w.sent
    /\ log' = w.log
    /\ boot' = w.boot
    /\ bgsaveinprogress' = w.bgsaveinprogress
    /\ lastsave' = w.lastsave
    /\ cronloops' = w.cronloops
    /\ nrandom' = w.nrandom
    /\ now' = w.now
    /\ children' = w.children
    /\ idle' = w.idle
    /\ cronlog' = w.cronlog
    /\ abi' = abi

\* initServer, for the connections conns and a build among abis.
InitOf(conns, abis) ==
    /\ heap = createSharedObjects
    /\ objfreelist = <<>>
    /\ dict = [j \in 1..dbnum |-> {}]
    /\ dirty = 0
    /\ clients = <<>>
    /\ client = [f \in {} |-> 0]
    /\ el = {}
    /\ crashed = FALSE
    /\ abi \in abis
    /\ net = [c \in conns |-> [peer |-> "idle", srv |-> "none", inq |-> <<>>,
                               script |-> <<>>]]
    /\ disk = [dir |-> <<>>, ino |-> <<>>]
    /\ sent = [c \in conns |-> <<>>]
    /\ log = [c \in conns |-> <<>>]
    /\ boot = [saved |-> [j \in 1..dbnum |-> {}], loaded |-> FALSE,
               captured |-> [j \in 1..dbnum |-> {}], last |-> NoSave,
               prev |-> [stamp |-> 0, view |-> [j \in 1..dbnum |-> {}]],
               cur |-> [stamp |-> 0, view |-> [j \in 1..dbnum |-> {}]]]
    /\ bgsaveinprogress = 0
    /\ lastsave = 0
    /\ cronloops = 0
    /\ nrandom = 0
    /\ now = 0
    /\ children = <<>>
    /\ idle = [c \in conns |-> [io |-> 0, over |-> 0]]
    /\ cronlog = NoCron

\* A peer connects and acceptHandler creates the client.
Accept(c) ==
    /\ ~crashed
    /\ net[c].peer = "idle"
    /\ Install(createClient(
           [World("null", FALSE) EXCEPT !.net[c].peer = "open"], c))

\* The peer writes one more chunk of requests, up to max chunks.
PeerSend(c, chunk, max) ==
    /\ ~crashed
    /\ net[c].peer = "open" /\ net[c].srv = "open"
    /\ Len(net[c].script) < max
    /\ net' = [net EXCEPT ![c].inq = @ \o chunk, ![c].script = Append(@, chunk)]
    /\ UNCHANGED <<heap, objfreelist, dict, dirty, clients, client, el,
                   crashed, abi, disk, sent, log, boot, bgsaveinprogress,
                   lastsave, cronloops, nrandom, now, children, idle, cronlog>>

\* The peer closes its end.
PeerClose(c) ==
    /\ ~crashed
    /\ net[c].peer = "open"
    /\ net' = [net EXCEPT ![c].peer = "shut"]
    /\ UNCHANGED <<heap, objfreelist, dict, dirty, clients, client, el,
                   crashed, abi, disk, sent, log, boot, bgsaveinprogress,
                   lastsave, cronloops, nrandom, now, children, idle, cronlog>>

\* What read() can return to the readable handler of connection c: all the
\* bytes that are there and fit the buffer, or a fragment of at most frag.
ReadCounts(len, frag) ==
    {n \in 1..Min(len, REDIS_QUERYBUF_LEN) :
        n <= frag \/ n = Min(len, REDIS_QUERYBUF_LEN)}

ReadResults(c, frag) ==
    {[nread |-> n, errno |-> "none"] : n \in ReadCounts(Len(net[c].inq), frag)}
    \cup (IF net[c].inq = <<>> /\ net[c].peer = "shut"
          THEN {[nread |-> 0, errno |-> "none"]} ELSE {})
    \cup (IF net[c].inq = <<>> /\ net[c].peer = "open"
          THEN {[nread |-> -1, errno |-> "EAGAIN"]} ELSE {})
    \cup {[nread |-> -1, errno |-> "ECONNRESET"]}

\* The readable event of client c.
ReadQuery(c, ubs, frag) ==
    /\ ~crashed
    /\ <<c, "READABLE">> \in el
    /\ \E rd \in ReadResults(c, frag), ub \in ubs :
          Install(readQueryFromClient(World(ub, FALSE), c, rd))

\* The bytes of the reply queue of c not yet written.
PendingOf(w, c) ==
    sdsrange(Concat([i \in 1..Len(Cl(w, c).reply) |-> Str(w, Cl(w, c).reply[i])]),
             Cl(w, c).sentlen)

\* The writable event of client c: the socket takes room bytes, and then
\* write() fails with errno.
SendReply(c) ==
    /\ ~crashed
    /\ <<c, "WRITABLE">> \in el
    /\ \E room \in 0..Len(PendingOf(World("null", FALSE), c)),
          errno \in {"EAGAIN", "EPIPE"} :
          Install(sendReplyToClient(World("null", FALSE), c, room, errno))

(***************************************************************************)
(* The requests of the specifications, each with what the protocol says    *)
(* it is: the commands it holds, by name, key and value.                   *)
(***************************************************************************)

RPing == [op |-> "ping", key |-> <<>>, val |-> <<>>]
RSet(k, v) == [op |-> "set", key |-> B(k), val |-> B(v)]
RGet(k) == [op |-> "get", key |-> B(k), val |-> <<>>]
RQuit == [op |-> "quit", key |-> <<>>, val |-> <<>>]

Request(text, cmds) == [text |-> B(text), cmds |-> cmds]

Requests ==
    {Request("PING\r\n", <<RPing>>),
     Request("SET foo 5\r\nhello\r\n", <<RSet("foo", "hello")>>),
     Request("GET foo\r\n", <<RGet("foo")>>),
     Request("\r\n", <<>>),
     Request("QUIT\r\n", <<RQuit>>)}

Menu == {r.text : r \in Requests}

\* The commands of a script of requests, in order.
CmdsOf(table, script) ==
    Concat([i \in 1..Len(script) |->
               (CHOOSE r \in table : r.text = script[i]).cmds])

\* The reply the protocol gives to a command over the map kv of the string
\* keys, and the map after it.
RefReply(cmd, kv) ==
    CASE cmd.op = "ping" -> B("+PONG\r\n")
      [] cmd.op = "set" -> B("+OK\r\n")
      [] cmd.op = "get" -> IF cmd.key \in DOMAIN kv
                           THEN itoa(Len(kv[cmd.key])) \o CRLF \o kv[cmd.key] \o CRLF
                           ELSE B("nil\r\n")
      [] OTHER -> <<>>

RefKV(cmd, kv) ==
    IF cmd.op = "set"
    THEN [x \in DOMAIN kv \cup {cmd.key} |-> IF x = cmd.key THEN cmd.val ELSE kv[x]]
    ELSE kv

\* The replies to the commands cmds, in order, starting from kv.
RECURSIVE RefReplies(_, _)
RefReplies(cmds, kv) ==
    IF cmds = <<>> THEN <<>>
    ELSE <<RefReply(Head(cmds), kv)>> \o RefReplies(Tail(cmds), RefKV(Head(cmds), kv))

EmptyKV == [x \in {} |-> <<>>]

\* The calls of processCommand on connection c that ended a command.
Completed(c) ==
    Cardinality({i \in 1..Len(log[c]) :
        log[c][i].res \in {"exec", "unknown", "arity", "badbulk", "quit"}})

IsPrefix(s, t) == Len(s) <= Len(t) /\ s = SubSeq(t, 1, Len(s))

Alive(c) == c \in DOMAIN client

Pending(c) == PendingOf(World("null", FALSE), c)

(***************************************************************************)
(* One connection sends requests of Menu, in any fragmentation.            *)
(***************************************************************************)

Conns == {1}

Next ==
    \E c \in Conns :
        \/ Accept(c)
        \/ \E chunk \in Menu : PeerSend(c, chunk, MaxSend)
        \/ PeerClose(c)
        \/ ReadQuery(c, {"null"}, MaxFrag)
        \/ SendReply(c)

Spec == InitOf(Conns, {"LP64"}) /\ [][Next]_vars

\* The replies owed to connection c for the commands executed so far.
Owed(c) ==
    Concat(RefReplies(SubSeq(CmdsOf(Requests, net[c].script), 1, Completed(c)),
                      EmptyKV))

\* C1: on one connection the replies are delivered in the order of the
\* commands, whatever the fragmentation of reads and writes: the bytes
\* written so far followed by the bytes still queued are the replies of the
\* executed commands in command order, each reply whole, and what a closed
\* connection received is a prefix of them.
C1_ReplyOrder ==
    \A c \in Conns :
        /\ Completed(c) <= Len(CmdsOf(Requests, net[c].script))
        /\ IF Alive(c) THEN sent[c] \o Pending(c) = Owed(c)
           ELSE IsPrefix(sent[c], Owed(c))

\* Two commands with different replies were executed in one read event and
\* the first reply has been written in part only.
C1_Witness ==
    \E c \in Conns :
        /\ Alive(c)
        /\ Completed(c) >= 2
        /\ Len(client[c].reply) >= 2
        /\ Str(World("null", FALSE), client[c].reply[1]) /=
              Str(World("null", FALSE), client[c].reply[2])
        /\ client[c].sentlen > 0
        /\ sent[c] /= <<>>

\* The requests of the script of c whose bytes the server has read in full.
RECURSIVE Whole(_, _)
Whole(script, n) ==
    IF script = <<>> \/ Len(Head(script)) > n THEN <<>>
    ELSE <<Head(script)>> \o Whole(Tail(script), n - Len(Head(script)))

Received(c) == Whole(net[c].script, Len(Concat(net[c].script)) - Len(net[c].inq))

\* C2: pipelining: between events a live client has no complete command
\* left unexecuted in its query buffer: every command whose bytes were all
\* read has been executed, after a bulk command and after an empty line too.
C2_Pipelining ==
    \A c \in Conns :
        Alive(c) => Completed(c) = Len(CmdsOf(Requests, Received(c)))

\* C3: QUIT discards no reply: when QUIT has closed the connection, the
\* replies of all the commands before it have been written to the peer.
C3_QuitDelivers ==
    \A c \in Conns :
        (log[c] /= <<>> /\ log[c][Len(log[c])].res = "quit") => sent[c] = Owed(c)

SetFooGetFoo == <<B("SET foo 5\r\nhello\r\n"), B("GET foo\r\n")>>

\* Both commands were executed and their replies written to the peer.
Answered(c) == Alive(c) /\ Completed(c) = 2 /\ client[c].reply = <<>>

RequestsErr ==
    {B("FOO\r\n"), B("GET\r\n"), B("SINTER\r\n"), B("ECHO -1\r\n"),
     B("SET k 1073741825\r\n"), B("SET k 4294967296\r\n"),
     B("SET k 1073741824\r\n"), B("SET k 3\r\na\nb\r\n")}

MenuErr == RequestsErr

NextErr ==
    \E c \in Conns :
        \/ Accept(c)
        \/ \E chunk \in MenuErr : PeerSend(c, chunk, MaxSend)
        \/ ReadQuery(c, {"null", "segv"}, MaxFrag)

SpecErr == InitOf(Conns, {"LP64", "ILP32"}) /\ [][NextErr]_vars

Last(s) == s[Len(s)]

\* s <= t for two strings of decimal digits of the same length.
RECURSIVE LexLE(_, _)
LexLE(s, t) ==
    IF s = <<>> THEN TRUE
    ELSE IF Head(s) /= Head(t) THEN IndexIn(Head(s), Digits) < IndexIn(Head(t), Digits)
    ELSE LexLE(Tail(s), Tail(t))

\* The decimal number tok, without sign or with a minus, is at most bound.
AtMost(digits, bound) ==
    Len(digits) < Len(bound) \/ (Len(digits) = Len(bound) /\ LexLE(digits, bound))

\* The declared length tok is in 0..2^30.
DeclInRange(tok) == Head(tok) /= "-" /\ AtMost(tok, B("1073741824"))

\* The declared length tok is a value of int.
DeclIsInt(tok) ==
    IF Head(tok) = "-" THEN AtMost(Tail(tok), B("2147483648"))
    ELSE AtMost(tok, B("2147483647"))

\* The entries of the history of c where processCommand read a bulk header.
Headers(c) == {i \in 1..Len(log[c]) : log[c][i].res \in {"bulkhdr", "badbulk"}}

DispatchErrors(c) ==
    {i \in 1..Len(log[c]) : log[c][i].res \in {"unknown", "arity", "badbulk"}}

ErrText(res) ==
    CASE res = "unknown" -> ErrUnknown
      [] res = "arity" -> ErrArity
      [] res = "badbulk" -> ErrBulk

\* C4: after every dispatch error (unknown command, wrong number of
\* arguments, invalid bulk count) the client is still connected, exactly
\* one error reply was queued, argc is 0 and bulklen -1, the argv objects
\* are released (every refcount is the number of references, the free list
\* holds each free header once), and no database or dirty counter changed.
C4_DispatchErrors ==
    \A c \in Conns : \A i \in DispatchErrors(c) :
        LET e == log[c][i] IN
        /\ e.eff.alive
        /\ e.eff.newreply = <<ErrText(e.res)>>
        /\ e.eff.argc = 0
        /\ e.eff.bulklen = -1
        /\ e.eff.heapok
        /\ e.eff.ddirty = 0
        /\ e.eff.after = e.eff.before

\* C5, as the specification states it: a bulk header whose declared length
\* is negative or above 2^30 closes the connection.
C5_Original ==
    \A c \in Conns : \A i \in Headers(c) :
        ~DeclInRange(Last(log[c][i].argv)) => ~log[c][i].eff.alive

\* C5, amended: a bulk header whose declared length is negative or above
\* 2^30 never closes the connection; when the declared length is a value of
\* int, it is rejected with exactly one "-ERR invalid bulk write count"
\* reply and the client is back in inline mode with argc 0.
C5_BadBulkKeepsClient ==
    \A c \in Conns : \A i \in Headers(c) :
        LET e == log[c][i] IN
        ~DeclInRange(Last(e.argv)) =>
            /\ e.eff.alive
            /\ DeclIsInt(Last(e.argv)) =>
                  /\ e.res = "badbulk"
                  /\ e.eff.newreply = <<ErrBulk>>
                  /\ e.eff.argc = 0
                  /\ e.eff.bulklen = -1

\* Both a negative length and a length just above 2^30 were rejected and
\* the client is still there.
C5_Witness ==
    \E c \in Conns :
        /\ Alive(c)
        /\ \E i, j \in Headers(c) :
              /\ log[c][i].res = "badbulk" /\ Last(log[c][i].argv) = B("-1")
              /\ log[c][j].res = "badbulk" /\ Last(log[c][j].argv) = B("1073741825")

\* C6: a bulk header with declared length N is accepted exactly when
\* 0 <= N <= 2^30, and then bulklen becomes N + 2.
C6_BulkLengthRange ==
    \A c \in Conns : \A i \in Headers(c) :
        LET e == log[c][i] IN
        /\ (e.res = "bulkhdr") <=> DeclInRange(Last(e.argv))
        /\ e.res = "bulkhdr" => utoa(e.bulklen - 2) = Last(e.argv)

\* C7: for an accepted bulk command with declared length N, however the
\* payload is split over reads, the parser removes exactly N + 2 bytes
\* after the header line, the last argument is the first N of them, the
\* command is executed once with it, and the bytes after them stay in the
\* query buffer.
C7_BulkPayload ==
    \A c \in Conns :
        /\ \A i \in 1..Len(log[c]) :
              (log[c][i].res = "exec" /\ log[c][i].argv[1] \in {B("set"), B("echo")}) =>
                /\ i > 1 /\ log[c][i - 1].res = "bulkhdr"
                /\ LET h == log[c][i - 1]
                       e == log[c][i]
                   IN  /\ utoa(e.pos - h.pos - 2) = Last(h.argv)
                       /\ Last(e.argv) =
                            SubSeq(Concat(net[c].script), h.pos + 1, e.pos - 2)
                       /\ SubSeq(e.argv, 1, Len(e.argv) - 1) =
                            SubSeq(h.argv, 1, Len(h.argv) - 1)
        /\ \A i \in 1..(Len(log[c]) - 1) :
              log[c][i].res = "bulkhdr" => log[c][i + 1].res = "exec"
                                           \/ i + 1 = Len(log[c])
        /\ Alive(c) =>
              client[c].querybuf =
                  SubSeq(Concat(net[c].script),
                         Consumed(World("null", FALSE), c) + 1,
                         Len(Concat(net[c].script)) - Len(net[c].inq))

(***************************************************************************)
(* Two connections send bytes without LF around the limit of the query     *)
(* buffer, and PING; every read takes all the bytes that fit the buffer.   *)
(***************************************************************************)

Junk(n) == [i \in 1..n |-> "x"]

MenuOverrun == {Junk(1), Junk(1023), Junk(1024), B("PING\r\n")}

Conns2 == {1, 2}

NextOverrun ==
    \E c \in Conns2 :
        \/ Accept(c)
        \/ \E chunk \in MenuOverrun : PeerSend(c, chunk, MaxSend)
        \/ ReadQuery(c, {"null"}, 0)

SpecOverrun == InitOf(Conns2, {"LP64"}) /\ [][NextOverrun]_vars

\* C8: a client in inline mode is terminated for protocol error exactly
\* when its query buffer holds no LF and more than 1024 bytes: a client
\* terminated so had such a buffer, a live client never has one, and the
\* termination changed no other client and no database.
C8_Overrun ==
    \A c \in Conns2 :
        /\ \A i \in 1..Len(log[c]) :
              log[c][i].res = "protoerr" =>
                /\ log[c][i].bulklen = -1 /\ ~log[c][i].lf
                /\ log[c][i].qlen > 1024
                /\ log[c][i].eff.others
                /\ log[c][i].eff.after = log[c][i].eff.before
                /\ log[c][i].eff.ddirty = 0
        /\ (Alive(c) /\ client[c].bulklen = -1 /\ strchrLF(client[c].querybuf) = 0)
              => Len(client[c].querybuf) <= 1024

(***************************************************************************)
(* One connection sends SET, SETNX and GET on a key that LPUSH, SADD and   *)
(* DEL make a list, a set or absent; every read takes all the bytes.       *)
(***************************************************************************)

MenuKV ==
    {B("SET k 1\r\na\r\n"), B("SET k 2\r\nb\n\r\n"),
     B("SETNX k 1\r\nc\r\n"), B("SETNX k 2\r\ndd\r\n"),
     B("GET k\r\n"), B("LPUSH k 1\r\nx\r\n"), B("SADD k 1\r\ny\r\n"),
     B("DEL k\r\n")}

NextKV ==
    \E c \in Conns :
        \/ Accept(c)
        \/ \E chunk \in MenuKV : PeerSend(c, chunk, MaxSendKV)
        \/ ReadQuery(c, {"null"}, 0)

SpecKV == InitOf(Conns, {"LP64"}) /\ [][NextKV]_vars

\* The commands executed for connection c, in order.
Execs(c) == SelectSeq(log[c], LAMBDA e : e.res = "exec")

\* What the keyspace view holds under key k.
Held(view, k) == {x \in view : x.key = k}

StringAt(k, v) == [key |-> k, val |-> [type |-> "STRING", val |-> v]]

BulkReply(v) == itoa(Len(v)) \o CRLF \o v \o CRLF

IsCmd(e, name, argc) == Len(e.argv) = argc /\ e.argv[1] = B(name)

\* C9: SET k v followed by GET k on the same client returns v, whatever
\* type k held before.  SETNX k v on an existing key replies 0 and leaves
\* the keyspace and the dirty counter as they are; on an absent key it
\* installs v and replies 1; so SETNX k v1, SETNX k v2, GET k returns v1.
C9_SetGet ==
    \A c \in Conns :
        LET x == Execs(c) IN
        \A i \in 1..Len(x) :
            LET e == x[i]
                before == e.eff.before[e.eff.db]
                after == e.eff.after[e.eff.db]
            IN
            /\ IsCmd(e, "set", 3) =>
                 /\ after = (before \ Held(before, e.argv[2]))
                               \cup {StringAt(e.argv[2], e.argv[3])}
                 /\ e.eff.newreply = <<B("+OK\r\n")>>
            /\ (IsCmd(e, "setnx", 3) /\ Held(before, e.argv[2]) /= {}) =>
                 /\ e.eff.newreply = <<B("0\r\n")>>
                 /\ e.eff.after = e.eff.before
                 /\ e.eff.ddirty = 0
            /\ (IsCmd(e, "setnx", 3) /\ Held(before, e.argv[2]) = {}) =>
                 /\ e.eff.newreply = <<B("1\r\n")>>
                 /\ after = before \cup {StringAt(e.argv[2], e.argv[3])}
            /\ (/\ i > 1 /\ IsCmd(e, "get", 2) /\ IsCmd(x[i - 1], "set", 3)
                /\ x[i - 1].argv[2] = e.argv[2]) =>
                 Concat(e.eff.newreply) = BulkReply(x[i - 1].argv[3])
            /\ (/\ i > 2 /\ IsCmd(e, "get", 2)
                /\ IsCmd(x[i - 1], "setnx", 3) /\ x[i - 1].argv[2] = e.argv[2]
                /\ IsCmd(x[i - 2], "setnx", 3) /\ x[i - 2].argv[2] = e.argv[2]
                /\ Held(x[i - 2].eff.before[e.eff.db], e.argv[2]) = {}) =>
                 Concat(e.eff.newreply) = BulkReply(x[i - 2].argv[3])

\* GET returned the value of the SET before it on a key that held a list
\* before the SET.
C9_Witness ==
    \E c \in Conns :
        LET x == Execs(c) IN
        /\ Len(x) = 3
        /\ IsCmd(x[1], "lpush", 3) /\ IsCmd(x[2], "set", 3) /\ IsCmd(x[3], "get", 2)
        /\ \E h \in Held(x[2].eff.before[1], B("k")) : h.val.type = "LIST"
        /\ Concat(x[3].eff.newreply) = B("2\r\nb\n\r\n")

(***************************************************************************)
(* One connection sends pushes, pops, LSET, LLEN and LRANGE 0 -1 on one    *)
(* key; every read takes all the bytes.                                    *)
(***************************************************************************)

\* The number of request chunks the peer of the list specification writes.
MaxSendList == 3

MenuList ==
    {B("LPUSH k 1\r\na\r\n"), B("LPUSH k 1\r\nb\r\n"), B("RPUSH k 1\r\nc\r\n"),
     B("RPUSH k 2\r\ndd\r\n"), B("LPOP k\r\n"), B("RPOP k\r\n"),
     B("LSET k 0 1\r\nx\r\n"), B("LSET k -1 1\r\ny\r\n"),
     B("LSET k 1 1\r\nz\r\n"), B("LLEN k\r\n"), B("LRANGE k 0 -1\r\n")}

NextList ==
    \E c \in Conns :
        \/ Accept(c)
        \/ \E chunk \in MenuList : PeerSend(c, chunk, MaxSendList)
        \/ ReadQuery(c, {"null"}, 0)

SpecList == InitOf(Conns, {"LP64"}) /\ [][NextList]_vars

\* The reference list: absent, or there with its elements in order.
RefAbsent == [there |-> FALSE, list |-> <<>>]
RefThere(l) == [there |-> TRUE, list |-> l]

\* The index an LSET of the menu names, as a position of a list of length n
\* (0: there is no such element).
RefPos(text, n) ==
    LET p == CASE text = B("0") -> 1
               [] text = B("1") -> 2
               [] text = B("-1") -> n
    IN  IF p >= 1 /\ p <= n THEN p ELSE 0

\* The reference list after the command of log entry e.
RefListStep(r, e) ==
    CASE IsCmd(e, "lpush", 3) -> RefThere(<<e.argv[3]>> \o r.list)
      [] IsCmd(e, "rpush", 3) -> RefThere(r.list \o <<e.argv[3]>>)
      [] IsCmd(e, "lpop", 2) /\ r.list /= <<>> -> RefThere(Tail(r.list))
      [] IsCmd(e, "rpop", 2) /\ r.list /= <<>> ->
            RefThere(SubSeq(r.list, 1, Len(r.list) - 1))
      [] IsCmd(e, "lset", 4) /\ RefPos(e.argv[3], Len(r.list)) /= 0 ->
            RefThere([r.list EXCEPT ![RefPos(e.argv[3], Len(r.list))] = e.argv[4]])
      [] OTHER -> r

\* The reference list after the first n commands of x.
RECURSIVE RefList(_, _)
RefList(x, n) == IF n = 0 THEN RefAbsent ELSE RefListStep(RefList(x, n - 1), x[n])

ListAt(k, l) == [key |-> k, val |-> [type |-> "LIST", val |-> l]]

\* The multi-bulk reply of the elements l.
MultiBulk(l) ==
    itoa(Len(l)) \o CRLF \o Concat([i \in 1..Len(l) |-> BulkReply(l[i])])

\* C11: after any sequence of LPUSH, RPUSH, LPOP, RPOP and LSET on a key the
\* stored list is the reference sequence (LPUSH prepends, RPUSH appends,
\* LPOP removes the first element, RPOP the last); LPOP and RPOP reply with
\* the removed element, or nil when the key is missing or the list is
\* empty; LLEN replies the reference length and LRANGE k 0 -1 the reference
\* elements in order.
C11_ListReference ==
    \A c \in Conns :
        LET x == Execs(c) IN
        \A i \in 1..Len(x) :
            LET e == x[i]
                r0 == RefList(x, i - 1)
                r1 == RefList(x, i)
                reply == Concat(e.eff.newreply)
            IN
            /\ e.eff.after[e.eff.db] =
                  (IF r1.there THEN {ListAt(B("k"), r1.list)} ELSE {})
            /\ IsCmd(e, "lpop", 2) =>
                  reply = (IF r0.list = <<>> THEN B("nil\r\n")
                           ELSE BulkReply(Head(r0.list)))
            /\ IsCmd(e, "rpop", 2) =>
                  reply = (IF r0.list = <<>> THEN B("nil\r\n")
                           ELSE BulkReply(r0.list[Len(r0.list)]))
            /\ IsCmd(e, "llen", 2) => reply = itoa(Len(r0.list)) \o CRLF
            /\ IsCmd(e, "lrange", 4) =>
                  reply = (IF r0.there THEN MultiBulk(r0.list) ELSE B("nil\r\n"))

\* LPUSH k a, LPUSH k b, LRANGE k 0 -1 was answered with b, a.
C11_Witness ==
    \E c \in Conns :
        LET x == Execs(c) IN
        /\ Len(x) = 3
        /\ IsCmd(x[1], "lpush", 3) /\ x[1].argv[3] = B("a")
        /\ IsCmd(x[2], "lpush", 3) /\ x[2].argv[3] = B("b")
        /\ IsCmd(x[3], "lrange", 4)
        /\ Concat(x[3].eff.newreply) = B("2\r\n1\r\nb\r\n1\r\na\r\n")

(***************************************************************************)
(* One connection builds a list of 0..MaxList elements on one key and then *)
(* sends LRANGE k start end and LTRIM k start end for one pair of indexes; *)
(* every read takes all the bytes.                                         *)
(***************************************************************************)

\* The longest list of the range specification.
MaxList == 3

Letters == B("abcdefgh")

\* The requests that build the list of the first n letters; the empty list
\* is what a push and a pop leave.
RECURSIVE Pushes(_)
Pushes(n) ==
    IF n = 0 THEN <<>>
    ELSE Pushes(n - 1) \o B("RPUSH k 1\r\n") \o <<Letters[n]>> \o CRLF

Setup(n) == IF n = 0 THEN Pushes(1) \o B("LPOP k\r\n") ELSE Pushes(n)

\* The indexes sent: around both ends of every list, and the ends of int.
Indexes == (0 - (MaxList + 1))..(MaxList + 1) \cup {INT_MAX, 0 - INT_MAX}

RangeRequest(s, e) ==
    B("LRANGE k ") \o itoa(s) \o B(" ") \o itoa(e) \o CRLF
    \o B("LTRIM k ") \o itoa(s) \o B(" ") \o itoa(e) \o CRLF

NextRange ==
    \E c \in Conns :
        \/ Accept(c)
        \/ \E n \in 0..MaxList : PeerSend(c, Setup(n), 1)
        \/ /\ Len(net[c].script) = 1
           /\ \E s \in Indexes, e \in Indexes : PeerSend(c, RangeRequest(s, e), 2)
        \/ ReadQuery(c, {"null"}, 0)

SpecRange == InitOf(Conns, {"LP64"}) /\ [][NextRange]_vars

\* The integer a decimal argument of the range specification denotes.
IntOf(text) == CHOOSE v \in Indexes : itoa(v) = text

\* The index i of a list of length len, normalized.
Normalized(i, len) == IF i < 0 THEN Max(len + i, 0) ELSE i

\* C12: on a list of length len, LRANGE start end normalizes each negative
\* index i to max(len+i, 0); if then start > end or start >= len the reply
\* is the literal 0; otherwise it is the count min(end, len-1) - start + 1
\* followed by the elements at start..min(end, len-1) in list order.
\* LRANGE changes neither the keyspace nor the dirty counter.
C12_Lrange ==
    \A c \in Conns :
        LET x == Execs(c) IN
        \A i \in 1..Len(x) :
            LET e == x[i]
                held == Held(e.eff.before[e.eff.db], e.argv[2])
            IN  (IsCmd(e, "lrange", 4) /\ \E h \in held : h.val.type = "LIST") =>
                LET l == (CHOOSE h \in held : TRUE).val.val
                    len == Len(l)
                    start == Normalized(IntOf(e.argv[3]), len)
                    end == Normalized(IntOf(e.argv[4]), len)
                    last == Min(end, len - 1)
                IN  /\ Concat(e.eff.newreply) =
                          (IF start > end \/ start >= len THEN B("0\r\n")
                           ELSE itoa(last - start + 1) \o CRLF
                                \o Concat([j \in 1..(last - start + 1) |->
                                              BulkReply(l[start + j])]))
                    /\ e.eff.after = e.eff.before
                    /\ e.eff.ddirty = 0

\* LRANGE k -2 4 on the list a, b, c was answered with the count 2 and the
\* elements b and c.
C12_Witness ==
    \E c \in Conns :
        LET x == Execs(c) IN
        \E i \in 1..Len(x) :
            /\ IsCmd(x[i], "lrange", 4)
            /\ x[i].argv[3] = B("-2") /\ x[i].argv[4] = B("4")
            /\ x[i].eff.before[1] = {ListAt(B("k"), <<B("a"), B("b"), B("c")>>)}
            /\ Concat(x[i].eff.newreply) = B("2\r\n1\r\nb\r\n1\r\nc\r\n")

\* The elements of the replies of one LRANGE: none for the reply 0, else
\* every third reply object after the count.
Window(newreply) ==
    IF newreply = <<B("0\r\n")>> THEN <<>>
    ELSE [j \in 1..((Len(newreply) - 1) \div 3) |-> newreply[3 * j]]

\* C13: LTRIM k start end leaves exactly the elements that LRANGE k start end
\* returned immediately before, in the same order (the empty list when the
\* window is empty), replies +OK, and releases each dropped element once:
\* every reference count is the number of references held.
C13_LtrimIsLrange ==
    \A c \in Conns :
        LET x == Execs(c) IN
        \A i \in 2..Len(x) :
            (/\ IsCmd(x[i], "ltrim", 4) /\ IsCmd(x[i - 1], "lrange", 4)
             /\ x[i].argv[2] = x[i - 1].argv[2] /\ x[i].argv[3] = x[i - 1].argv[3]
             /\ x[i].argv[4] = x[i - 1].argv[4]
             /\ \E h \in Held(x[i].eff.before[x[i].eff.db], x[i].argv[2]) :
                   h.val.type = "LIST") =>
                /\ x[i].eff.after[x[i].eff.db] =
                      {ListAt(x[i].argv[2], Window(x[i - 1].eff.newreply))}
                /\ x[i].eff.newreply = <<B("+OK\r\n")>>
                /\ x[i].eff.heapok

\* LTRIM k 1 -2 cut the list a, b, c down to b.
C13_Witness ==
    \E c \in Conns :
        LET x == Execs(c) IN
        \E i \in 2..Len(x) :
            /\ IsCmd(x[i], "ltrim", 4) /\ IsCmd(x[i - 1], "lrange", 4)
            /\ x[i].argv[3] = B("1") /\ x[i].argv[4] = B("-2")
            /\ x[i].eff.before[1] = {ListAt(B("k"), <<B("a"), B("b"), B("c")>>)}
            /\ x[i].eff.after[1] = {ListAt(B("k"), <<B("b")>>)}

(***************************************************************************)
(* One connection sends SADD, SREM, SISMEMBER and SCARD on one key; every  *)
(* read takes all the bytes.                                               *)
(***************************************************************************)

\* The number of request chunks the peer of the set specification writes.
MaxSendSet == 3

MenuSet ==
    {B("SADD s 1\r\na\r\n"), B("SADD s 2\r\nbb\r\n"),
     B("SREM s 1\r\na\r\n"), B("SREM s 2\r\nbb\r\n"),
     B("SISMEMBER s 1\r\na\r\n"), B("SISMEMBER s 2\r\nbb\r\n"),
     B("SCARD s\r\n")}

NextSet ==
    \E c \in Conns :
        \/ Accept(c)
        \/ \E chunk \in MenuSet : PeerSend(c, chunk, MaxSendSet)
        \/ ReadQuery(c, {"null"}, 0)

SpecSet == InitOf(Conns, {"LP64"}) /\ [][NextSet]_vars

\* The reference set after the command of log entry e: the key is there
\* from the first SADD on.
RefSetStep(r, e) ==
    CASE IsCmd(e, "sadd", 3) -> [there |-> TRUE, set |-> r.set \cup {e.argv[3]}]
      [] IsCmd(e, "srem", 3) -> [there |-> r.there, set |-> r.set \ {e.argv[3]}]
      [] OTHER -> r

RECURSIVE RefSet(_, _)
RefSet(x, n) ==
    IF n = 0 THEN [there |-> FALSE, set |-> {}]
    ELSE RefSetStep(RefSet(x, n - 1), x[n])

SetAt(k, m) == [key |-> k, val |-> [type |-> "SET", val |-> m]]

Bit(b) == IF b THEN B("1\r\n") ELSE B("0\r\n")

\* C14: after any sequence of SADD and SREM on a key the stored set is the
\* set of the elements added and not removed since; SISMEMBER k e replies 1
\* exactly when e is among them, SCARD k their number, SADD 1 exactly when
\* the element was absent, SREM 1 exactly when it was present.
C14_SetReference ==
    \A c \in Conns :
        LET x == Execs(c) IN
        \A i \in 1..Len(x) :
            LET e == x[i]
                r0 == RefSet(x, i - 1)
                r1 == RefSet(x, i)
                reply == Concat(e.eff.newreply)
            IN
            /\ e.eff.after[e.eff.db] =
                  (IF r1.there THEN {SetAt(B("s"), r1.set)} ELSE {})
            /\ IsCmd(e, "sadd", 3) => reply = Bit(e.argv[3] \notin r0.set)
            /\ IsCmd(e, "srem", 3) => reply = Bit(e.argv[3] \in r0.set)
            /\ IsCmd(e, "sismember", 3) => reply = Bit(e.argv[3] \in r0.set)
            /\ IsCmd(e, "scard", 2) => reply = itoa(Cardinality(r0.set)) \o CRLF

\* SADD s a, SADD s a, SCARD s was answered with 1, 0, 1.
C14_Witness ==
    \E c \in Conns :
        LET x == Execs(c) IN
        /\ Len(x) = 3
        /\ IsCmd(x[1], "sadd", 3) /\ x[1].argv[3] = B("a")
        /\ IsCmd(x[2], "sadd", 3) /\ x[2].argv[3] = B("a")
        /\ IsCmd(x[3], "scard", 2)
        /\ x[1].eff.newreply = <<B("1\r\n")>>
        /\ x[2].eff.newreply = <<B("0\r\n")>>
        /\ x[3].eff.newreply = <<B("1\r\n")>>

(***************************************************************************)
(* One connection fills the sets s and t with subsets of the first         *)
(* MaxElems letters, stores a string under u, leaves m absent, and sends   *)
(* one group of SINTER requests; every read takes all the bytes.           *)
(***************************************************************************)

\* The number of distinct elements of the intersection specification.
MaxElems == 2

\* SADD key x for the letters of S in order; an empty set is what an SADD
\* and an SREM leave.
RECURSIVE Sadds(_, _, _)
Sadds(key, S, n) ==
    IF n = 0 THEN <<>>
    ELSE Sadds(key, S, n - 1) \o
         (IF Letters[n] \in S
          THEN B("SADD ") \o key \o B(" 1\r\n") \o <<Letters[n]>> \o CRLF
          ELSE <<>>)

Fill(key, S) ==
    IF S = {} THEN B("SADD ") \o key \o B(" 1\r\na\r\nSREM ") \o key \o B(" 1\r\na\r\n")
    ELSE Sadds(key, S, MaxElems)

ElemSets == SUBSET {Letters[n] : n \in 1..MaxElems}

SetupInter(S, T) == Fill(B("s"), S) \o Fill(B("t"), T) \o B("SET u 1\r\nv\r\n")

MenuInter ==
    {B("SINTER s t\r\nSINTER t s\r\nSINTER s s t\r\n"),
     B("SINTER s\r\nSMEMBERS t\r\n"),
     B("SINTER s t m\r\n"), B("SINTER m s\r\n"),
     B("SINTER s u t\r\n"), B("SINTER u\r\n"),
     B("SINTER u m\r\n"), B("SINTER m u\r\n")}

NextInter ==
    \E c \in Conns :
        \/ Accept(c)
        \/ \E S \in ElemSets, T \in ElemSets : PeerSend(c, SetupInter(S, T), 1)
        \/ /\ Len(net[c].script) = 1
           /\ \E chunk \in MenuInter : PeerSend(c, chunk, 2)
        \/ ReadQuery(c, {"null"}, 0)

SpecInter == InitOf(Conns, {"LP64"}) /\ [][NextInter]_vars

IsSinter(e) == Len(e.argv) >= 2 /\ e.argv[1] \in {B("sinter"), B("smembers")}

\* What key k is in a keyspace view: "missing", or the type of its value.
KindOf(view, k) ==
    IF Held(view, k) = {} THEN "missing"
    ELSE (CHOOSE h \in Held(view, k) : TRUE).val.type

\* The members of the set under key k.
MembersOf(view, k) == (CHOOSE h \in Held(view, k) : TRUE).val.val

\* The elements of a multi-bulk reply, as Window gives them, each framed by
\* its length line and a CRLF.
WellFramed(newreply) ==
    /\ Len(newreply) % 3 = 1
    /\ \A j \in 1..((Len(newreply) - 1) \div 3) :
          /\ newreply[3 * j - 1] = itoa(Len(newreply[3 * j])) \o CRLF
          /\ newreply[3 * j + 1] = CRLF

Emitted(newreply) ==
    {newreply[3 * j] : j \in 1..((Len(newreply) - 1) \div 3)}

\* C15: SINTER k1..kn with every key holding a set replies exactly the
\* elements of the intersection of the sets, each once, after a count line
\* that is the number of elements emitted; two requests over the same keys,
\* in any order and with repetitions, reply the same elements.  With a key
\* that is missing or holds no set, the first such key decides: the reply is
\* nil for a missing key, the wrong-type reply for one of another type, and
\* nothing else is enqueued.
C15_Sinter ==
    \A c \in Conns :
        LET x == Execs(c) IN
        \A i \in 1..Len(x) :
            IsSinter(x[i]) =>
            LET e == x[i]
                view == e.eff.before[e.eff.db]
                keys == Tail(e.argv)
                bad == {j \in 1..Len(keys) : KindOf(view, keys[j]) /= "SET"}
                n == (Len(e.eff.newreply) - 1) \div 3
            IN  IF bad = {}
                THEN /\ WellFramed(e.eff.newreply)
                     /\ e.eff.newreply[1] = itoa(n) \o CRLF
                     /\ Cardinality(Emitted(e.eff.newreply)) = n
                     /\ Emitted(e.eff.newreply) =
                           {m \in MembersOf(view, keys[1]) :
                               \A j \in 1..Len(keys) : m \in MembersOf(view, keys[j])}
                     /\ \A i2 \in 1..Len(x) :
                           (/\ IsSinter(x[i2])
                            /\ x[i2].eff.before = e.eff.before
                            /\ {x[i2].argv[j] : j \in 2..Len(x[i2].argv)}
                                  = {keys[j] : j \in 1..Len(keys)})
                           => Emitted(x[i2].eff.newreply) = Emitted(e.eff.newreply)
                ELSE LET first == CHOOSE j \in bad : \A j2 \in bad : j <= j2 IN
                     e.eff.newreply =
                        <<IF KindOf(view, keys[first]) = "missing"
                          THEN SharedText.nil ELSE SharedText.wrongtypeerrbulk>>

\* SINTER s s t on s = {a, b} and t = {b} was answered with the count 1 and
\* the element b.
C15_Witness ==
    \E c \in Conns :
        LET x == Execs(c) IN
        \E i \in 1..Len(x) :
            /\ x[i].argv = <<B("sinter"), B("s"), B("s"), B("t")>>
            /\ MembersOf(x[i].eff.before[1], B("s")) = {B("a"), B("b")}
            /\ MembersOf(x[i].eff.before[1], B("t")) = {B("b")}
            /\ Concat(x[i].eff.newreply) = B("1\r\n1\r\nb\r\n")

(***************************************************************************)
(* One connection sends INCR, DECR, INCRBY and DECRBY on a key that SET    *)
(* and LPUSH give a value; every read takes all the bytes.                 *)
(***************************************************************************)

\* The number of request chunks the peer of the counter specification writes.
MaxSendIncr == 3

MenuIncr ==
    {B("SET n 1\r\n5\r\n"), B("SET n 19\r\n9223372036854775797\r\n"),
     B("SET n 5\r\n12abc\r\n"), B("LPUSH n 1\r\nx\r\n"),
     B("INCR n\r\n"), B("DECR n\r\n"), B("GET n\r\n"),
     B("INCRBY n 10\r\n"), B("DECRBY n 10\r\n"),
     B("INCRBY n 4294967296\r\n"), B("DECRBY n -2147483648\r\n")}

NextIncr ==
    \E c \in Conns :
        \/ Accept(c)
        \/ \E chunk \in MenuIncr : PeerSend(c, chunk, MaxSendIncr)
        \/ ReadQuery(c, {"null", "segv"}, 0)

SpecIncr == InitOf(Conns, {"LP64", "ILP32"}) /\ [][NextIncr]_vars

(***************************************************************************)
(* Reference arithmetic on decimal numerals: a number is a sign and the    *)
(* digits of its magnitude, most significant first, without leading zeros. *)
(***************************************************************************)

DigitVal(ch) == IndexIn(ch, Digits) - 1

RECURSIVE DecStrip(_)
DecStrip(m) == IF Len(m) > 1 /\ m[1] = "0" THEN DecStrip(Tail(m)) ELSE m

\* m with zeros in front, to n digits.
RECURSIVE DecPad(_, _)
DecPad(m, n) == IF Len(m) >= n THEN m ELSE DecPad(<<"0">> \o m, n)

\* a < b for magnitudes of the same number of digits.
RECURSIVE DecLessEq(_, _)
DecLessEq(a, b) ==
    IF a = <<>> THEN TRUE
    ELSE IF a[1] /= b[1] THEN DigitVal(a[1]) < DigitVal(b[1])
    ELSE DecLessEq(Tail(a), Tail(b))

DecLE(a, b) ==
    LET n == Max(Len(a), Len(b)) IN DecLessEq(DecPad(a, n), DecPad(b, n))

\* The digits of a + b + carry (a - b - borrow, for a >= b) from position i
\* down, for magnitudes of the same number of digits.
RECURSIVE DecAddFrom(_, _, _, _)
DecAddFrom(a, b, i, carry) ==
    IF i = 0 THEN (IF carry > 0 THEN <<"1">> ELSE <<>>)
    ELSE LET t == DigitVal(a[i]) + DigitVal(b[i]) + carry
         IN  DecAddFrom(a, b, i - 1, t \div 10) \o <<Digits[(t % 10) + 1]>>

RECURSIVE DecSubFrom(_, _, _, _)
DecSubFrom(a, b, i, borrow) ==
    IF i = 0 THEN <<>>
    ELSE LET t == DigitVal(a[i]) - DigitVal(b[i]) - borrow
         IN  DecSubFrom(a, b, i - 1, IF t < 0 THEN 1 ELSE 0)
             \o <<Digits[((t + 10) % 10) + 1]>>

Num(neg, mag) == [neg |-> neg /\ DecStrip(mag) /= <<"0">>, mag |-> DecStrip(mag)]

NumAdd(x, y) ==
    LET n == Max(Len(x.mag), Len(y.mag))
        a == DecPad(x.mag, n)
        b == DecPad(y.mag, n)
    IN  IF x.neg = y.neg THEN Num(x.neg, DecAddFrom(a, b, n, 0))
        ELSE IF DecLE(b, a) THEN Num(x.neg, DecSubFrom(a, b, n, 0))
        ELSE Num(y.neg, DecSubFrom(b, a, n, 0))

NumNeg(x) == Num(~x.neg, x.mag)

NumText(x) == IF x.neg THEN <<"-">> \o x.mag ELSE x.mag

\* A decimal numeral: digits, with or without a minus sign in front.
IsDecimal(text) ==
    LET u == IF text /= <<>> /\ text[1] = "-" THEN Tail(text) ELSE text
    IN  u /= <<>> /\ \A i \in 1..Len(u) : isdigit(u[i])

NumOf(text) ==
    IF text[1] = "-" THEN Num(TRUE, Tail(text)) ELSE Num(FALSE, text)

\* x is in the range of a signed 64-bit integer.
Fits64(x) ==
    DecLE(x.mag, IF x.neg THEN B("9223372036854775808")
                 ELSE B("9223372036854775807"))

IsCounterCmd(e) ==
    \/ IsCmd(e, "incr", 2) \/ IsCmd(e, "decr", 2)
    \/ IsCmd(e, "incrby", 3) \/ IsCmd(e, "decrby", 3)

\* The value a counter command reads: 0 for a missing key and for a value
\* that is no decimal numeral.
CurrentOf(view, k) ==
    IF Held(view, k) = {} THEN Num(FALSE, B("0"))
    ELSE LET v == (CHOOSE h \in Held(view, k) : TRUE).val IN
         IF v.type = "STRING" /\ IsDecimal(v.val) THEN NumOf(v.val)
         ELSE Num(FALSE, B("0"))

\* The delta of a counter command with a decimal argument.
DeltaOf(e) ==
    CASE IsCmd(e, "incr", 2) -> Num(FALSE, B("1"))
      [] IsCmd(e, "decr", 2) -> Num(TRUE, B("1"))
      [] IsCmd(e, "incrby", 3) -> NumOf(e.argv[3])
      [] IsCmd(e, "decrby", 3) -> NumNeg(NumOf(e.argv[3]))

\* C16: INCR, DECR, INCRBY k d and DECRBY k d read the current value as a
\* signed 64-bit decimal (0 when the key is missing or the value is not
\* numeric), add the delta (+1, -1, +d, -d), store the sum as a STRING and
\* reply with it, for every decimal delta d and current value whose sum
\* fits in signed 64 bits.
C16_Counters ==
    \A c \in Conns :
        LET x == Execs(c) IN
        \A i \in 1..Len(x) :
            LET e == x[i]
                before == e.eff.before[e.eff.db]
                after == e.eff.after[e.eff.db]
            IN  (/\ IsCounterCmd(e)
                 /\ Len(e.argv) = 3 => IsDecimal(e.argv[3])
                 /\ Fits64(CurrentOf(before, e.argv[2]))
                 /\ Fits64(NumAdd(CurrentOf(before, e.argv[2]), DeltaOf(e)))) =>
                LET sum == NumText(NumAdd(CurrentOf(before, e.argv[2]), DeltaOf(e)))
                IN  /\ after = (before \ Held(before, e.argv[2]))
                                  \cup {StringAt(e.argv[2], sum)}
                    /\ Concat(e.eff.newreply) = sum \o CRLF

(***************************************************************************)
(* RENAME and RENAMENX: one client fills the keyspace by a first chunk     *)
(* and then renames.                                                       *)
(***************************************************************************)

MaxSendRen == 3

SetupRen ==
    {B("SET a 1\r\nx\r\n"),
     B("SET a 1\r\nx\r\nSET b 1\r\ny\r\nSET d 1\r\nk\r\n"),
     B("LPUSH a 1\r\nx\r\nSADD b 1\r\ny\r\nSET d 1\r\nk\r\n"),
     B("SET b 1\r\ny\r\nSET d 1\r\nk\r\n"),
     B("SET b 1\r\ny\r\nSELECT 1\r\nSET a 1\r\nw\r\n")}

MenuRen ==
    {B("RENAME a b\r\n"), B("RENAMENX a b\r\n"), B("RENAME a a\r\n"),
     B("RENAMENX a a\r\n"), B("RENAME b a\r\n"), B("RENAME m b\r\n"),
     B("RENAMENX m b\r\n")}

NextRen ==
    \E c \in Conns :
        \/ Accept(c)
        \/ \E chunk \in SetupRen : PeerSend(c, chunk, 1)
        \/ /\ Len(net[c].script) >= 1
           /\ \E chunk \in MenuRen : PeerSend(c, chunk, MaxSendRen)
        \/ ReadQuery(c, {"null"}, 0)

SpecRen == InitOf(Conns, {"LP64"}) /\ [][NextRen]_vars

IsRename(e) == IsCmd(e, "rename", 3) \/ IsCmd(e, "renamenx", 3)

\* The keyspace view without the keys ks.
Without(view, ks) == {x \in view : x.key \notin ks}

IsError(reply) == Len(reply) >= 4 /\ SubSeq(reply, 1, 4) = B("-ERR")

\* C17: RENAME/RENAMENX src dst.  When src equals dst or src is missing the
\* reply is an error (for RENAMENX the sentinels -3 and -1) and the keyspace
\* is unchanged; RENAMENX with an existing dst replies 0 and changes nothing;
\* otherwise dst holds exactly the value src held, src is absent, every
\* other key is unchanged, and the previous value of dst is released: no
\* object keeps a reference that nothing holds.  SET a x then RENAMENX a a
\* replies +OK and -3.
C17_Rename ==
    \A c \in Conns : \A i \in 1..Len(Execs(c)) :
        LET e == Execs(c)[i]
            nx == IsCmd(e, "renamenx", 3)
            src == e.argv[2]
            dst == e.argv[3]
            before == e.eff.before[e.eff.db]
            after == e.eff.after[e.eff.db]
            same == e.eff.after = e.eff.before /\ e.eff.ddirty = 0
        IN  IsRename(e) =>
              /\ e.eff.heapok
              /\ Len(e.eff.newreply) = 1
              /\ IF src = dst
                 THEN /\ same
                      /\ IF nx THEN e.eff.newreply[1] = B("-3\r\n")
                         ELSE IsError(e.eff.newreply[1])
                 ELSE IF Held(before, src) = {}
                 THEN /\ same
                      /\ IF nx THEN e.eff.newreply[1] = B("-1\r\n")
                         ELSE IsError(e.eff.newreply[1])
                 ELSE IF nx /\ Held(before, dst) /= {}
                 THEN same /\ e.eff.newreply[1] = B("0\r\n")
                 ELSE /\ Held(after, dst) =
                            {[key |-> dst, val |-> x.val] : x \in Held(before, src)}
                      /\ Held(after, src) = {}
                      /\ Without(after, {src, dst}) = Without(before, {src, dst})
                      /\ \A j \in 1..dbnum :
                            j /= e.eff.db => e.eff.after[j] = e.eff.before[j]
              /\ (i = 2 /\ Execs(c)[1].argv = <<B("set"), B("a"), B("x")>>
                    /\ Execs(c)[1].eff.before = [j \in 1..dbnum |-> {}]
                    /\ nx /\ src = B("a") /\ dst = B("a")) =>
                    Execs(c)[1].eff.newreply \o e.eff.newreply =
                        <<B("+OK\r\n"), B("-3\r\n")>>

\* RENAME has replaced the value of an existing destination by the value of
\* another type that the source held.
C17_Witness ==
    \E c \in Conns : \E i \in 1..Len(Execs(c)) :
        LET e == Execs(c)[i] IN
        /\ IsCmd(e, "rename", 3)
        /\ KindOf(e.eff.before[e.eff.db], e.argv[2]) = "LIST"
        /\ KindOf(e.eff.before[e.eff.db], e.argv[3]) = "SET"
        /\ KindOf(e.eff.after[e.eff.db], e.argv[3]) = "LIST"
        /\ e.eff.newreply = <<B("+OK\r\n")>>

(***************************************************************************)
(* MOVE: one client fills two databases by a first chunk, ends in database *)
(* 0 or 1, and then moves keys.                                            *)
(***************************************************************************)

MaxSendMove == 3

SetupMove ==
    {B("SET a 1\r\nx\r\nSET d 1\r\nk\r\n"),
     B("LPUSH a 1\r\nx\r\nSELECT 1\r\nSET a 1\r\ny\r\nSET e 1\r\nq\r\nSELECT 0\r\n"),
     B("SET d 1\r\nk\r\nSELECT 1\r\nSADD a 1\r\ny\r\n"),
     B("SET a 1\r\nx\r\nSELECT 1\r\nSET a 1\r\ny\r\n")}

MoveIndexes == {-1, 0, 1, 2, 7}

MenuMove ==
    {B("MOVE a ") \o itoa(n) \o CRLF : n \in MoveIndexes}
    \cup {B("MOVE m 0\r\n"), B("MOVE m 1\r\n"), B("MOVE d 1\r\n")}

NextMove ==
    \E c \in Conns :
        \/ Accept(c)
        \/ \E chunk \in SetupMove : PeerSend(c, chunk, 1)
        \/ /\ Len(net[c].script) >= 1
           /\ \E chunk \in MenuMove : PeerSend(c, chunk, MaxSendMove)
        \/ ReadQuery(c, {"null"}, 0)

SpecMove == InitOf(Conns, {"LP64"}) /\ [][NextMove]_vars

\* The database index a decimal argument of the MOVE specification denotes.
MoveIndexOf(text) == CHOOSE n \in MoveIndexes : itoa(n) = text

\* C18: MOVE k n fails and leaves the databases unchanged when k is missing
\* in the source (reply 0), when n is the client's current database (the
\* sentinel -3), when n is not a valid index (the sentinel -4), or when
\* database n already has k (reply 0); where several of these hold the reply
\* is the one of a condition that holds.  Otherwise the reply is 1, k with
\* its value is in database n and absent from the source, and all other
\* keys of all databases are unchanged.  In every case the client's selected
\* database is the same after MOVE as before.
C18_Move ==
    \A c \in Conns : \A i \in 1..Len(Execs(c)) :
        LET e == Execs(c)[i]
            k == e.argv[2]
            n == MoveIndexOf(e.argv[3])
            src == e.eff.db
            invalid == n < 0 \/ n >= dbnum
            current == ~invalid /\ n + 1 = src
            missing == Held(e.eff.before[src], k) = {}
            taken == ~invalid /\ ~current /\ Held(e.eff.before[n + 1], k) /= {}
            allowed == (IF missing \/ taken THEN {B("0\r\n")} ELSE {})
                       \cup (IF current THEN {B("-3\r\n")} ELSE {})
                       \cup (IF invalid THEN {B("-4\r\n")} ELSE {})
        IN  IsCmd(e, "move", 3) =>
              /\ e.eff.heapok
              /\ e.eff.dbafter = e.eff.db
              /\ Len(e.eff.newreply) = 1
              /\ IF invalid \/ current \/ missing \/ taken
                 THEN /\ e.eff.after = e.eff.before
                      /\ e.eff.ddirty = 0
                      /\ e.eff.newreply[1] \in allowed
                 ELSE /\ e.eff.newreply[1] = B("1\r\n")
                      /\ Held(e.eff.after[n + 1], k) = Held(e.eff.before[src], k)
                      /\ Held(e.eff.after[src], k) = {}
                      /\ \A j \in 1..dbnum :
                            Without(e.eff.after[j], {k}) =
                                Without(e.eff.before[j], {k})

\* A client that had selected database 1 has moved a set to database 0,
\* which held other keys, and is still on database 1.
C18_Witness ==
    \E c \in Conns : \E i \in 1..Len(Execs(c)) :
        LET e == Execs(c)[i] IN
        /\ IsCmd(e, "move", 3)
        /\ e.eff.db = 2 /\ e.eff.dbafter = 2
        /\ e.argv[3] = B("0")
        /\ e.eff.before[1] /= {}
        /\ KindOf(e.eff.before[2], e.argv[2]) = "SET"
        /\ KindOf(e.eff.after[1], e.argv[2]) = "SET"
        /\ e.eff.newreply = <<B("1\r\n")>>

(***************************************************************************)
(* Commands on a key of another type: one client stores a string, a list   *)
(* or a set under k and another value under o, and then sends the commands *)
(* that require a type.                                                    *)
(***************************************************************************)

MaxSendType == 3

SetupType ==
    {B("SET k 1\r\nv\r\nLPUSH o 1\r\nx\r\n"),
     B("LPUSH k 1\r\nx\r\nSADD o 1\r\ny\r\n"),
     B("SADD k 1\r\ny\r\nSET o 1\r\nw\r\n")}

MenuType ==
    {B("GET k\r\n"), B("LPUSH k 1\r\nz\r\n"), B("RPUSH k 1\r\nz\r\n"),
     B("LPOP k\r\n"), B("RPOP k\r\n"), B("LLEN k\r\n"), B("LINDEX k 0\r\n"),
     B("LSET k 0 1\r\nz\r\n"), B("LRANGE k 0 -1\r\n"), B("LTRIM k 0 0\r\n"),
     B("SADD k 1\r\nz\r\n"), B("SREM k 1\r\ny\r\n"), B("SISMEMBER k 1\r\ny\r\n"),
     B("SCARD k\r\n"), B("SINTER k\r\n"), B("SINTER k o\r\n"),
     B("SINTER o k\r\n")}

NextType ==
    \E c \in Conns :
        \/ Accept(c)
        \/ \E chunk \in SetupType : PeerSend(c, chunk, 1)
        \/ /\ Len(net[c].script) >= 1
           /\ \E chunk \in MenuType : PeerSend(c, chunk, MaxSendType)
        \/ ReadQuery(c, {"null"}, 0)

SpecType == InitOf(Conns, {"LP64"}) /\ [][NextType]_vars

\* The type a command requires of its keys, "" for a command that requires
\* none.
RequiredType(name) ==
    CASE name \in {B("get")} -> "STRING"
      [] name \in {B("lpush"), B("rpush"), B("lpop"), B("rpop"), B("llen"),
                   B("lindex"), B("lset"), B("lrange"), B("ltrim")} -> "LIST"
      [] name \in {B("sadd"), B("srem"), B("sismember"), B("scard"),
                   B("sinter")} -> "SET"
      [] OTHER -> ""

\* The keys of a command: all the arguments of SINTER, the first argument of
\* the others.
KeysOf(argv) ==
    IF argv[1] = B("sinter") THEN {argv[i] : i \in 2..Len(argv)} ELSE {argv[2]}

WrongTypeReplies ==
    {SharedText.wrongtypeerr, SharedText.wrongtypeerrbulk, SharedText.minus2}

MaxSendSave == 3

SetupSave ==
    {B("SET a 0\r\n\r\nRPUSH l 1\r\nx\r\nRPUSH l 2\r\nyz\r\nLPUSH e 1\r\nx\r\nLPOP e\r\n")
       \o B("SELECT 1\r\nSADD s 1\r\np\r\nSADD s 1\r\nq\r\nSADD t 1\r\nx\r\nSREM t 1\r\nx\r\n"),
     B("SELECT 1\r\nSET b 3\r\nk\r\n\r\n"),
     B("PING\r\n")}

MenuSave ==
    {B("SAVE\r\n"), B("SET a 1\r\nz\r\n"), B("DEL a\r\n"), B("RPUSH l 0\r\n\r\n"),
     B("SADD s 0\r\n\r\n")}

\* The process ends and is started again from the file.
Restart ==
    /\ FileOf(disk, "dump.rdb") /= NULLPTR
    /\ ~boot.loaded
    /\ Install(main(World("null", FALSE)))

NextSave ==
    \/ \E c \in Conns :
        \/ Accept(c)
        \/ \E chunk \in SetupSave : PeerSend(c, chunk, 1)
        \/ /\ Len(net[c].script) >= 1
           /\ \E chunk \in MenuSave : PeerSend(c, chunk, MaxSendSave)
        \/ ReadQuery(c, {"null", "werr"}, 0)
    \/ Restart

SpecSave == InitOf(Conns, {"LP64"}) /\ [][NextSave]_vars

\* C20: a server started with empty databases from the file that SAVE wrote
\* from the keyspace D holds a keyspace equal to D: the same non-empty
\* databases, the same keys, for each key the same type and the same bytes,
\* the lists in the same order and the sets with the same members, empty
\* strings, lists and sets included.
C20_SaveLoad ==
    boot.loaded => ~crashed /\ DictView(World("null", FALSE)) = boot.saved

\* A server was started from the file of a keyspace with two databases, an
\* empty string, a list of two elements, an empty list, a set of two members
\* and an empty set, and holds them.
C20_Witness ==
    /\ boot.loaded
    /\ \E x \in boot.saved[1] : x.val = [type |-> "STRING", val |-> <<>>]
    /\ \E x \in boot.saved[1] : x.val.type = "LIST" /\ Len(x.val.val) >= 2
    /\ \E x \in boot.saved[1] : x.val = [type |-> "LIST", val |-> <<>>]
    /\ \E x \in boot.saved[2] : x.val.type = "SET" /\ Cardinality(x.val.val) = 2
    /\ \E x \in boot.saved[2] : x.val = [type |-> "SET", val |-> {}]
    /\ DictView(World("null", FALSE)) = boot.saved

(***************************************************************************)
(* The headers of Value Objects: one client writes strings, lists and      *)
(* sets, renames, deletes and intersects, the replies are written or the   *)
(* connection is closed with replies queued, and the registration of the   *)
(* writable event can fail.                                                 *)
(***************************************************************************)

MaxSendRef == 3

MenuRef ==
    {B("SET a 1\r\nx\r\n"), B("RENAME a l\r\n"), B("LPUSH l 1\r\nx\r\n"),
     B("SADD s 1\r\nx\r\n"), B("SINTER s\r\n"), B("GET l\r\n")}

\* The readable event of client c, where aeCreateFileEvent succeeds or fails
\* in the handlers it runs.
ReadQueryAe(c) ==
    /\ ~crashed
    /\ <<c, "READABLE">> \in el
    /\ \E rd \in ReadResults(c, 0), aeerr \in BOOLEAN :
          Install(readQueryFromClient(World("null", aeerr), c, rd))

\* The writable event of client c when the socket takes all that is queued.
SendWhole(c) ==
    /\ ~crashed
    /\ <<c, "WRITABLE">> \in el
    /\ Install(sendReplyToClient(World("null", FALSE), c,
                                 Len(PendingOf(World("null", FALSE), c)), "EAGAIN"))

NextRef ==
    \E c \in Conns :
        \/ Accept(c)
        \/ \E chunk \in MenuRef : PeerSend(c, chunk, MaxSendRef)
        \/ PeerClose(c)
        \/ ReadQueryAe(c)
        \/ SendWhole(c)

SpecRef == InitOf(Conns, {"LP64"}) /\ [][NextRef]_vars

\* The capacity a bounded pool of headers would have in the model.
MaxFree == 3

\* C30: the free list of headers is a pool of bounded capacity: in every
\* reachable state its length is at most the capacity, a header released
\* while the pool is full being freed instead of added.
C30_FreeListBounded == Len(objfreelist) <= MaxFree

\* C29: a header is released exactly when its refcount reaches 0: a header
\* is on the free list if and only if its refcount is 0, and a header on the
\* free list is referenced by no keyspace entry, reply queue or argv slot
\* and holds no payload written after its release; this includes the length
\* placeholder of SINTER when enqueuing the reply fails.
C29_Released ==
    ~crashed =>
        \A o \in 1..Len(heap) :
            /\ (Occurs(o, objfreelist) > 0) <=> (heap[o].refcount = 0)
            /\ Occurs(o, objfreelist) > 0 =>
                  /\ heap[o].ptr = FREED
                  /\ \A s \in RefSlots(World("null", FALSE)) : s[4] /= o

\* C28: at every command boundary the refcount of every header is the
\* number of references held on it by keyspace entries, list elements, set
\* members, reply nodes and argv slots, plus one for each shared reply, and
\* every object of the keyspace has refcount at least 1.
C28_RefCounts ==
    ~crashed =>
        /\ HeapOK(World("null", FALSE))
        /\ \A j \in 1..dbnum : \A e \in dict[j] :
              heap[e.key].refcount >= 1 /\ heap[e.val].refcount >= 1

\* A RENAME replaced a list by the string of the source key, and the client
\* was destroyed with replies queued, the counts being right after it.
C28_Witness ==
    /\ ~crashed
    /\ HeapOK(World("null", FALSE))
    /\ \E c \in Conns :
          /\ ~Alive(c)
          /\ \E i \in 1..Len(log[c]) :
                /\ IsCmd(log[c][i], "rename", 3) /\ log[c][i].res = "exec"
                /\ KindOf(log[c][i].eff.before[1], B("l")) = "LIST"
                /\ KindOf(log[c][i].eff.after[1], B("l")) = "STRING"
                /\ log[c][i].eff.newreply = <<SharedText.ok>>
          /\ sent[c] = <<>>
          /\ \E i \in 1..Len(log[c]) : log[c][i].res = "closed"
    /\ \E e \in dict[1] : heap[e.val].refcount = 1

(***************************************************************************)
(* Saves: one client writes keys and asks for SAVE and BGSAVE, the child   *)
(* of a background save runs beside the server and can be killed, the     *)
(* cron runs, and the environment fails steps of the saves; all of it      *)
(* within one second.                                                      *)
(***************************************************************************)

MaxSendBg == 2
MaxCron == 2

MenuBg ==
    {B("SET a 1\r\nx\r\n"), B("SAVE\r\n"), B("BGSAVE\r\n")}

\* What the environment fails in a call of saveDb or saveDbBackground.
SaveFaults == {"null", "efopen", "eiter", "werr", "eflush", "erename", "efork"}

\* The faults of the saves a handler runs, and the steps a child makes
\* during a SAVE without fault.
SaveEnvs ==
    {[ub |-> ub, sched |-> <<0, 0>>] : ub \in SaveFaults}
    \cup {[ub |-> "null", sched |-> sc] : sc \in {<<1, 0>>, <<0, 1>>, <<2, 0>>}}

\* The readable event of client c, in the environment env of SaveEnvs.
ReadQuerySave(c) ==
    /\ ~crashed
    /\ <<c, "READABLE">> \in el
    /\ \E rd \in ReadResults(c, 0), env \in SaveEnvs :
          Install(readQueryFromClient(
              [World(env.ub, FALSE) EXCEPT !.sched = env.sched], c, rd))

\* A second passes.
Tick(max) ==
    /\ now < max
    /\ now' = now + 1
    /\ UNCHANGED <<heap, objfreelist, dict, dirty, clients, client, el,
                   crashed, abi, net, disk, sent, log, boot, bgsaveinprogress,
                   lastsave, cronloops, nrandom, children, idle, cronlog>>

\* The time event of the server fires.
Cron(ubs, max) ==
    /\ ~crashed
    /\ cronloops < max
    /\ \E ub \in ubs : Install(serverCron(World(ub, FALSE)))

\* A child makes a step.
ChildStep(faults) ==
    \E i \in Running(World("null", FALSE)), fault \in faults :
        Install(childStep(World("null", FALSE), i, fault))

\* A signal kills a child.
ChildKill ==
    \E i \in Running(World("null", FALSE)) :
        Install([World("null", FALSE) EXCEPT !.children[i].sv.pc = "done",
                                             !.children[i].statloc = SIGKILL])

NextBg ==
    \/ \E c \in Conns :
        \/ Accept(c)
        \/ \E chunk \in MenuBg : PeerSend(c, chunk, MaxSendBg)
        \/ ReadQuerySave(c)
    \/ Cron({"null", "zero", "efork"}, MaxCron)
    \/ ChildStep({"null", "eiter"})
    \/ ChildKill

SpecBg == InitOf(Conns, {"LP64"}) /\ [][NextBg]_vars

\* C21: a save that fails at any step leaves dump.rdb as it was, leaves no
\* temporary file, leaves dirty and lastsave unchanged and is reported as an
\* error (-ERR for SAVE, exit status 1 for the child); dump.rdb is only
\* replaced by a completely written snapshot.
C21_FailedSave ==
    /\ boot.last.who = "SAVE" =>
          IF boot.last.res = "REDIS_ERR"
          THEN /\ boot.last.after = boot.last.before
               /\ ~boot.last.left
               /\ boot.last.ddirty = 0 /\ boot.last.dlastsave = 0
               /\ boot.last.reported = SharedText.err
          ELSE /\ boot.last.after = boot.last.bytes
               /\ boot.last.reported = SharedText.ok
    /\ \A i \in 1..Len(children) :
          LET ch == children[i] IN
          /\ ~ch.touched
          /\ ch.sv.res = "REDIS_ERR" => ~ch.left /\ ch.statloc = W_EXITCODE(1)
          /\ ch.sv.res = "REDIS_OK" =>
                ch.written = Snapshot(ch.mem) /\ ch.statloc = W_EXITCODE(0)

C23_ChildSnapshot ==
    \A i \in 1..Len(children) :
        children[i].sv.res = "REDIS_OK" =>
            children[i].written = Snapshot(children[i].mem)

\* C24: whenever dirty is 0, the keyspace equals the state captured by the
\* last successful save (at the command for SAVE, at the fork for a
\* background save).
C24_DirtyZero ==
    ~crashed /\ dirty = 0 => DictView(World("null", FALSE)) = boot.captured

\* C25: when the cron finds the child terminated it clears bgsaveinprogress
\* whatever the outcome; it sets dirty to 0 and updates lastsave only if the
\* child wrote the snapshot (exit status 0), and leaves both unchanged if
\* the child failed (exit status 1 or abnormal termination).
C25_Reap ==
    cronlog.ran /\ cronlog.reaped \in {"exit0", "exit1", "signal"} =>
        /\ ~cronlog.inprogressafter
        /\ cronlog.reaped = "exit0" => cronlog.dirtyafter = 0
        /\ cronlog.reaped /= "exit0" =>
              /\ cronlog.dirtyafter = cronlog.dirty
              /\ cronlog.lastsaveafter = cronlog.lastsave

\* C39: bgsaveinprogress is nonzero exactly while a forked child of a
\* background save exists that the cron has not reaped; it is never nonzero
\* without such a child, also when fork fails.
C39_FlagIffChild ==
    ~crashed => ((bgsaveinprogress /= 0) <=> (children /= <<>>))


\* The cron of C25 under fair ticks: the time event is armed again by every
\* call of serverCron, so the cron runs again and again.
NextBgFair ==
    \/ \E c \in Conns :
        \/ Accept(c)
        \/ \E chunk \in MenuBg : PeerSend(c, chunk, MaxSendBg)
        \/ ReadQuerySave(c)
    \/ Cron({"null", "zero", "efork"}, 10)
    \/ ChildStep({"null", "eiter"})
    \/ ChildKill

SpecBgFair ==
    /\ InitOf(Conns, {"LP64"})
    /\ [][NextBgFair]_vars
    /\ WF_vars(Cron({"null", "zero", "efork"}, 10))

\* The liveness part of C25: once the child of a background save has
\* terminated, bgsaveinprogress is eventually 0 again.
C25_Cleared ==
    (bgsaveinprogress /= 0 /\ Running(World("null", FALSE)) = {})
        ~> (bgsaveinprogress = 0)

(***************************************************************************)
(* The save rules: one client writes, seconds pass, the cron runs and the  *)
(* child of a save it started does its work.                               *)
(***************************************************************************)

MaxSendCron == 2
MaxNow == 2

MenuCron == {B("SET a 1\r\nx\r\n")}

NextCron ==
    \/ \E c \in Conns :
        \/ Accept(c)
        \/ \E chunk \in MenuCron : PeerSend(c, chunk, MaxSendCron)
        \/ ReadQuery(c, {"null"}, 0)
    \/ Tick(MaxNow)
    \/ Cron({"null"}, 10)
    \/ ChildStep({"null"})

SpecCron == InitOf(Conns, {"LP64"}) /\ [][NextCron]_vars

\* C26: at a cron tick with no background save in progress a background
\* save is started if and only if some rule (seconds, changes) has
\* dirty >= changes and now - lastsave >= seconds, and at most one is
\* started.
C26_SaveRules ==
    cronlog.ran /\ ~cronlog.inprogress =>
        /\ cronlog.started <= 1
        /\ cronlog.started = 1 <=>
              \E j \in 1..Len(saveparams) :
                  /\ cronlog.dirty >= saveparams[j].changes
                  /\ cronlog.elapsed >= saveparams[j].seconds

(***************************************************************************)
(* Idle clients: two clients connect, one of them sends PING and is sent   *)
(* the reply, seconds pass and the cron runs.                              *)
(***************************************************************************)

MaxSendIdle == 1
MaxNowIdle == 3

NextIdle ==
    \/ \E c \in Conns2 :
        \/ Accept(c)
        \/ c = 1 /\ PeerSend(c, B("PING\r\n"), MaxSendIdle)
        \/ ReadQuery(c, {"null"}, 0)
        \/ SendWhole(c)
    \/ Tick(MaxNowIdle)
    \/ Cron({"null"}, 10)

SpecIdle == InitOf(Conns2, {"LP64"}) /\ [][NextIdle]_vars

MaxSendConn == 2

MenuConn ==
    {B(" \r\n"), B("SET a 1\r\n"), B("x\r\n"),
     B("QUIT\r\n"), B("SINTER s s s s s s s s s s s s s s s s\r\n")}

\* A peer connects and acceptHandler creates the client, where
\* aeCreateFileEvent succeeds or fails.
AcceptAe(c) ==
    /\ ~crashed
    /\ net[c].peer = "idle"
    /\ \E aeerr \in BOOLEAN :
          Install(createClient(
              [World("null", aeerr) EXCEPT !.net[c].peer = "open"], c))

NextConn ==
    \E c \in Conns :
        \/ AcceptAe(c)
        \/ \E chunk \in MenuConn : PeerSend(c, chunk, MaxSendConn)
        \/ PeerClose(c)
        \/ ReadQueryAe(c)
        \/ SendReply(c)

SpecConn == InitOf(Conns, {"LP64"}) /\ [][NextConn]_vars

\* The calls of processCommand on connection c.
Calls(c) ==
    SelectSeq(log[c], LAMBDA e :
        e.res \in {"exec", "unknown", "arity", "badbulk", "bulkhdr", "quit"})

\* C35: processCommand is only called with argc >= 1: no input line, a line
\* of spaces included, leads to a dispatch with an empty argv.
C35_ArgvNotEmpty ==
    \A c \in Conns : \A i \in 1..Len(Calls(c)) : Calls(c)[i].argv /= <<>>

\* C36: the assertion of freeClient that the client is in server.clients
\* holds on every call, the call of createClient on a failure of
\* aeCreateFileEvent included: no client structure is handed to freeClient
\* that is not linked in the list.
C36_AssertHolds ==
    ~(crashed /\ \E fd \in DOMAIN client :
                    \A i \in 1..Len(clients) : clients[i] /= fd)

\* C31: between two handlers, every live client has its writable handler
\* installed if and only if its reply queue is not empty.
C31_WritableIffQueued ==
    ~crashed =>
        \A c \in Conns : Alive(c) =>
            ((<<c, "WRITABLE">> \in el) <=> (client[c].reply /= <<>>))

\* The queue of c was drained by a write, which removed the handler, and the
\* reply of the next command installed it again.
C31_Witness ==
    /\ Alive(1) /\ Len(Calls(1)) = 2
    /\ sent[1] = ErrUnknown
    /\ client[1].reply /= <<>> /\ <<1, "WRITABLE">> \in el

\* The fragments enqueued on the reply queue of connection c, in order, with
\* the bytes they had when the call of processCommand returned.
Enqueued(c) ==
    Concat([i \in 1..Len(log[c]) |->
               IF log[c][i].res \in {"exec", "unknown", "arity", "badbulk"}
               THEN log[c][i].eff.newreply ELSE <<>>])

\* C34: in every reachable state argc is between 0 and 16, at every call of
\* processCommand too, for a line of any number of tokens and with the bulk
\* argument appended; between two handlers a client with bulklen = -1 has
\* argc = 0 and a client with bulklen /= -1 has bulklen >= 2 and argc >= 1.
C34_ArgcBounds ==
    ~crashed =>
    \A c \in Conns :
        /\ \A i \in 1..Len(Calls(c)) : Len(Calls(c)[i].argv) <= 16
        /\ Alive(c) =>
              /\ Len(client[c].argv) \in 0..16
              /\ client[c].bulklen = -1 => client[c].argv = <<>>
              /\ client[c].bulklen /= -1 =>
                    client[c].bulklen >= 2 /\ Len(client[c].argv) >= 1

\* A line of 17 tokens was dispatched with 16 arguments, and the client then
\* sent the header of a bulk command and waits for the payload.
C34_Witness ==
    /\ \E i \in 1..Len(Calls(1)) : Len(Calls(1)[i].argv) = 16
    /\ Alive(1) /\ client[1].bulklen = 3 /\ Len(client[1].argv) = 2

(***************************************************************************)
(* Writes: the first peer sends a request with one argument too many and   *)
(* then a line of spaces, the second a request with one argument too many; *)
(* the socket of the second takes any part of what is queued.              *)
(***************************************************************************)

MaxSendWrite == 2

MenuWrite(c) ==
    IF c = 2 THEN {B("PING a\r\n")}
    ELSE IF net[c].script = <<>> THEN {B("GET a b\r\n")}
    ELSE {B(" \r\n")}

NextWrite ==
    \E c \in Conns2 :
        \/ Accept(c)
        \/ \E chunk \in MenuWrite(c) :
              PeerSend(c, chunk, IF c = 1 THEN MaxSendWrite ELSE 1)
        \/ ReadQuery(c, {"null"}, 0)
        \/ c = 2 /\ SendReply(c)

SpecWrite == InitOf(Conns2, {"LP64"}) /\ [][NextWrite]_vars

\* C32: the bytes written to a client's socket are the fragments enqueued
\* on its reply queue that left the queue, in order and whole, followed by
\* the first sentlen bytes of the head fragment: no byte is repeated or
\* skipped.  sentlen is between 0 and the length of the head fragment and is
\* 0 when the queue is empty.  A write that fails with EAGAIN keeps the
\* client and the bytes still owed; a write that fails with another error
\* destroys the client.
C32_WrittenPrefix ==
    ~crashed =>
    \A c \in Conns2 :
        LET all == Enqueued(c)
            w == World("null", FALSE)
        IN
        /\ IsPrefix(sent[c], Concat(all))
        /\ Alive(c) =>
              LET q == client[c].reply
                  k == Len(all) - Len(q)
              IN  /\ k >= 0
                  /\ [i \in 1..Len(q) |-> Str(w, q[i])] = SubSeq(all, k + 1, Len(all))
                  /\ sent[c] = Concat(SubSeq(all, 1, k))
                                  \o SubSeq(Concat(SubSeq(all, k + 1, Len(all))),
                                            1, client[c].sentlen)
                  /\ client[c].sentlen >= 0
                  /\ q = <<>> => client[c].sentlen = 0
                  /\ q /= <<>> => client[c].sentlen <= Len(Str(w, Head(q)))
                  /\ \A room \in 0..Len(Pending(c)) :
                        /\ LET a == sendReplyToClient(w, c, room, "EAGAIN") IN
                           /\ c \in DOMAIN a.client
                           /\ a.sent[c] \o PendingOf(a, c) = sent[c] \o Pending(c)
                           /\ Len(a.sent[c]) = Len(sent[c]) + room
                        /\ room < Len(Pending(c)) =>
                              c \notin DOMAIN sendReplyToClient(w, c, room, "EPIPE").client

(***************************************************************************)
(* The end of a client: two peers connect; the first stores a value, asks  *)
(* for it, sends QUIT or a line too long and closes, the second asks for   *)
(* the value; reads and writes fail, seconds pass and the cron runs.       *)
(***************************************************************************)

MaxSendFree == 2
MaxNowFree == 3
MaxCronFree == 1

\* What a peer sends next: the first peer stores the value first.
MenuFree(c) ==
    IF c = 2 THEN {B("GET a\r\n")}
    ELSE IF net[c].script = <<>> THEN {B("SET a 1\r\nx\r\n")}
    ELSE {B("GET a\r\n"), B("QUIT\r\n"), Junk(1024)}

\* The writable event of client c when the socket takes nothing and write()
\* fails with EPIPE.
SendFail(c) ==
    /\ ~crashed
    /\ <<c, "WRITABLE">> \in el
    /\ Install(sendReplyToClient(World("null", FALSE), c, 0, "EPIPE"))

\* The server sees no event for longer than maxidletime.
Lull(max) ==
    /\ now < max
    /\ now' = now + maxidletime + 1
    /\ UNCHANGED <<heap, objfreelist, dict, dirty, clients, client, el,
                   crashed, abi, net, disk, sent, log, boot, bgsaveinprogress,
                   lastsave, cronloops, nrandom, children, idle, cronlog>>

NextFree ==
    \/ \E c \in Conns2 :
        \/ Accept(c)
        \/ \E chunk \in MenuFree(c) :
              PeerSend(c, chunk, IF c = 1 THEN MaxSendFree ELSE 1)
        \/ c = 1 /\ PeerClose(c)
        \/ ReadQuery(c, {"null"}, 0)
        \/ SendFail(c)
    \/ Lull(MaxNowFree)
    \/ Cron({"null"}, MaxCronFree)

SpecFree == InitOf(Conns2, {"LP64"}) /\ [][NextFree]_vars

\* The causes a client is destroyed for.
Causes == {"quit", "closed", "readerr", "writeerr", "protoerr", "timeout"}

\* C33: when a client is destroyed, for any cause, every reference it held
\* through argv and through its reply queue is released exactly once (every
\* refcount is then the number of references left, and a header is in the
\* free list exactly when none is left, so objects the keyspace or other
\* clients refer to stay live), its handlers are removed and it is no
\* longer in server.clients; the other clients and the keyspace are as
\* before.
C33_Destroyed ==
    /\ ~crashed
    /\ \A c \in Conns2 :
          /\ ~Alive(c) =>
                /\ <<c, "READABLE">> \notin el /\ <<c, "WRITABLE">> \notin el
                /\ \A i \in 1..Len(clients) : clients[i] /= c
          /\ \A i \in 1..Len(log[c]) :
                LET e == log[c][i] IN
                e.res \in Causes =>
                    /\ i = Len(log[c]) /\ ~Alive(c)
                    /\ e.eff.heapok
                    /\ e.eff.after = e.eff.before
                    /\ e.res /= "quit" => e.eff.others

\* The first client was destroyed while its reply queue held the value of
\* key a, which the keyspace and the reply queue of the second client hold
\* too.
C33_Witness ==
    /\ ~Alive(1) /\ log[1] /= <<>>
    /\ log[1][Len(log[1])].res \in Causes \ {"quit"}
    /\ sent[1] = <<>> /\ Len(Execs(1)) = 2
    /\ Alive(2) /\ Len(client[2].reply) = 3
    /\ HeapOK(World("null", FALSE))

(***************************************************************************)
(* The split of the request stream into read events.  The run that reads   *)
(* the same stream one byte per event is computed from the state after     *)
(* initServer and compared with the run the server made.                   *)
(***************************************************************************)

\* The server after initServer, with connection c accepted and the bytes
\* stream in flight on it.
Fresh(c, stream) ==
    createClient(
        [World("null", FALSE) EXCEPT
            !.heap = createSharedObjects,
            !.objfreelist = <<>>,
            !.dict = [j \in 1..dbnum |-> {}],
            !.dirty = 0,
            !.clients = <<>>,
            !.client = [f \in {} |-> 0],
            !.el = {},
            !.net = [d \in DOMAIN net |->
                        [peer |-> IF d = c THEN "open" ELSE "idle",
                         srv |-> "none",
                         inq |-> IF d = c THEN stream ELSE <<>>,
                         script |-> <<>>]],
            !.sent = [d \in DOMAIN sent |-> <<>>],
            !.log = [d \in DOMAIN log |-> <<>>]], c)

\* The readable handler of c runs once for every byte in flight.
RECURSIVE ReadBytewise(_, _)
ReadBytewise(w, c) ==
    IF w.crashed \/ c \notin DOMAIN w.client \/ w.net[c].inq = <<>> THEN w
    ELSE ReadBytewise(
             readQueryFromClient(w, c, [nread |-> 1, errno |-> "none"]), c)

\* What a run has come to on connection c: the calls of processCommand, the
\* keyspace, whether the connection is open and the reply bytes, written or
\* queued.
Outcome(w, c) ==
    LET calls == SelectSeq(w.log[c], LAMBDA e :
                     e.res \in {"exec", "unknown", "arity", "badbulk",
                                "bulkhdr", "quit"})
    IN  [calls |-> [i \in 1..Len(calls) |-> <<calls[i].res, calls[i].argv>>],
         keyspace |-> DictView(w),
         open |-> c \in DOMAIN w.client,
         reply |-> IF c \in DOMAIN w.client
                   THEN w.sent[c] \o PendingOf(w, c) ELSE <<>>]

\* C37: for a given request byte stream on one connection, the commands
\* executed, the keyspace and the reply bytes (or the closing of the
\* connection) do not depend on the split of the stream into read events:
\* once all the bytes are read, the run has come to what the run that reads
\* the stream one byte per event comes to.
C37_SplitIndependent ==
    \A c \in Conns :
        /\ net[c].script /= <<>> /\ net[c].inq = <<>>
        /\ Alive(c) \/ (log[c] /= <<>> /\ log[c][Len(log[c])].res = "quit")
        => The({Outcome(World("null", FALSE), c) = Outcome(ReadBytewise(f, c), c) :
                   f \in {Fresh(c, Concat(net[c].script))}})

(***************************************************************************)
(* Replies that wait: the second client stores a string, a list and a set, *)
(* the first client asks for them and is sent any part of the replies, and *)
(* the second client changes the keys in between.                          *)
(***************************************************************************)

MaxSendPend == 2

SetupPend ==
    B("SET a 1\r\n5\r\nRPUSH l 1\r\nx\r\nRPUSH l 1\r\ny\r\nSADD s 1\r\nm\r\n")
    \o B("LINDEX l 0\r\n")

MenuPend(c) ==
    IF c = 1
    THEN {B("GET a\r\n"), B("INCR a\r\n"), B("LINDEX l 0\r\n"), B("LPOP l\r\n"),
          B("LRANGE l 0 1\r\n"), B("SINTER s\r\n"),
          B("SET b 1\r\nX\r\nGET b\r\n")}
    ELSE IF net[c].script = <<>> THEN {SetupPend}
    ELSE {B("INCR a\r\nSET a 1\r\n7\r\nDEL a\r\n"),
          B("LSET l 0 1\r\nz\r\nLTRIM l 1 1\r\n"),
          B("SREM s 1\r\nm\r\n"), B("RENAME l a\r\n"), B(" \r\n")}

NextPend ==
    \E c \in Conns2 :
        \/ Accept(c)
        \/ \E chunk \in MenuPend(c) :
              PeerSend(c, chunk, IF c = 1 THEN 1 ELSE MaxSendPend)
        \/ ReadQuery(c, {"null"}, 0)
        \/ c = 1 /\ SendReply(c)

SpecPend == InitOf(Conns2, {"LP64"}) /\ [][NextPend]_vars

\* C38: the bytes of a reply are fixed when it is enqueued: whatever the
\* clients execute afterwards, the fragments still queued for a client hold
\* the bytes they had when they were enqueued, and the bytes written to it
\* are those bytes, in order.
C38_ReplyFixed ==
    ~crashed =>
    \A c \in Conns2 :
        Alive(c) =>
            LET all == Enqueued(c)
                q == client[c].reply
                k == Len(all) - Len(q)
            IN  /\ k >= 0
                /\ [i \in 1..Len(q) |-> Str(World("null", FALSE), q[i])]
                      = SubSeq(all, k + 1, Len(all))
                /\ sent[c] \o Pending(c) = Concat(all)

(***************************************************************************)
(* Saves that overlap: a client asks for a background save, writes and     *)
(* asks for a save, while the child does its work and the cron runs.       *)
(***************************************************************************)

MaxSendOver == 2

MenuOver == {B("BGSAVE\r\n"), B("SET a 1\r\nx\r\nSAVE\r\n")}

NextOver ==
    \/ \E c \in Conns :
        \/ Accept(c)
        \/ \E chunk \in MenuOver : PeerSend(c, chunk, MaxSendOver)
        \/ ReadQuery(c, {"null"}, 0)
    \/ Cron({"null"}, MaxCron)
    \/ ChildStep({"null"})

SpecOver == InitOf(Conns, {"LP64"}) /\ [][NextOver]_vars

\* C40: dump.rdb never regresses: the snapshot a rename installs is never
\* of a state of the keyspace older than the state of the snapshot it
\* replaces.
C40_NoRegress ==
    boot.cur.stamp < boot.prev.stamp => boot.cur.view = boot.prev.view

====
